---- MODULE Spec2Model ----
(***************************************************************************)
(* Model of the Aetos orchestrator core: the lifecycle state machine, the  *)
(* ProductListing aggregate with its domain events, and the use cases      *)
(* built on them.                                                          *)
(***************************************************************************)
EXTENDS Integers, Sequences, FiniteSets, TLC

(***************************************************************************)
(* Bounds of the model.                                                    *)
(***************************************************************************)
\* largest value the wall clock reaches
MaxClock == 1
\* number of aggregates obtained from the factory in one behaviour
MaxCreated == 3
\* longest batch of matches handed to the ingestion use case
MaxBatch == 3

\* the longest match list a completed job reports to the polling task
MaxPollMatches == 1

\* how many times the commit of process_scraper_matches fails during one task
MaxCommitFailures == 1

(***************************************************************************)
(* Values.                                                                 *)
(***************************************************************************)
\* Python's None in a datetime slot (times are naturals)
NoTime == -1

\* Python's None in a string / enum slot
NoValue == "None"

\* actors that trigger a transition (triggered_by)
Actors == {"test", "admin_api"}

\* error messages handed to record_error
Messages == {"Something went wrong", "timeout"}

\* product ids carried by scraper matches
ProductIds == {230, 231}

\* scraper job ids handed to the factory
JobIds == {"job-1", "job-2"}

\* domain/enums/listing_state.py
ListingState ==
    {"FOUND", "MESSAGING", "NEGOTIATING", "PURCHASED",
     "RECEIVED", "LISTED", "SOLD", "CANCELLED"}

\* ListingState.is_terminal
is_terminal(s) == s \in {"SOLD", "CANCELLED"}

(***************************************************************************)
(* Lifecycle state machine (domain/state_machine).                         *)
(***************************************************************************)
\* mutant: a listed item can still be cancelled
VALID_TRANSITIONS_listed_cancel(s) ==
    CASE s = "FOUND"       -> {"MESSAGING", "CANCELLED"}
      [] s = "MESSAGING"   -> {"NEGOTIATING", "CANCELLED"}
      [] s = "NEGOTIATING" -> {"PURCHASED", "CANCELLED"}
      [] s = "PURCHASED"   -> {"RECEIVED", "CANCELLED"}
      [] s = "RECEIVED"    -> {"LISTED"}
      [] s = "LISTED"      -> {"SOLD", "CANCELLED"}
      [] s = "SOLD"        -> {}
      [] s = "CANCELLED"   -> {}

\* mutant: a listed item can go back to RECEIVED
VALID_TRANSITIONS_listed_returns(s) ==
    CASE s = "FOUND"       -> {"MESSAGING", "CANCELLED"}
      [] s = "MESSAGING"   -> {"NEGOTIATING", "CANCELLED"}
      [] s = "NEGOTIATING" -> {"PURCHASED", "CANCELLED"}
      [] s = "PURCHASED"   -> {"RECEIVED", "CANCELLED"}
      [] s = "RECEIVED"    -> {"LISTED"}
      [] s = "LISTED"      -> {"SOLD", "RECEIVED"}
      [] s = "SOLD"        -> {}
      [] s = "CANCELLED"   -> {}

\* mutant: a received item can still be cancelled
VALID_TRANSITIONS_received_cancel(s) ==
    CASE s = "FOUND"       -> {"MESSAGING", "CANCELLED"}
      [] s = "MESSAGING"   -> {"NEGOTIATING", "CANCELLED"}
      [] s = "NEGOTIATING" -> {"PURCHASED", "CANCELLED"}
      [] s = "PURCHASED"   -> {"RECEIVED", "CANCELLED"}
      [] s = "RECEIVED"    -> {"LISTED", "CANCELLED"}
      [] s = "LISTED"      -> {"SOLD"}
      [] s = "SOLD"        -> {}
      [] s = "CANCELLED"   -> {}

\* mutant: the LISTED row lost its entry
VALID_TRANSITIONS_listed_dead_end(s) ==
    CASE s = "FOUND"       -> {"MESSAGING", "CANCELLED"}
      [] s = "MESSAGING"   -> {"NEGOTIATING", "CANCELLED"}
      [] s = "NEGOTIATING" -> {"PURCHASED", "CANCELLED"}
      [] s = "PURCHASED"   -> {"RECEIVED", "CANCELLED"}
      [] s = "RECEIVED"    -> {"LISTED"}
      [] s = "LISTED"      -> {}
      [] s = "SOLD"        -> {}
      [] s = "CANCELLED"   -> {}

\* mutant: a negotiation can fall back to MESSAGING
VALID_TRANSITIONS_back_to_messaging(s) ==
    CASE s = "FOUND"       -> {"MESSAGING", "CANCELLED"}
      [] s = "MESSAGING"   -> {"NEGOTIATING", "CANCELLED"}
      [] s = "NEGOTIATING" -> {"PURCHASED", "MESSAGING", "CANCELLED"}
      [] s = "PURCHASED"   -> {"RECEIVED", "CANCELLED"}
      [] s = "RECEIVED"    -> {"LISTED"}
      [] s = "LISTED"      -> {"SOLD"}
      [] s = "SOLD"        -> {}
      [] s = "CANCELLED"   -> {}

VALID_TRANSITIONS(s) ==
    CASE s = "FOUND"       -> {"MESSAGING", "CANCELLED"}
      [] s = "MESSAGING"   -> {"NEGOTIATING", "CANCELLED"}
      [] s = "NEGOTIATING" -> {"PURCHASED", "CANCELLED"}
      [] s = "PURCHASED"   -> {"RECEIVED", "CANCELLED"}
      [] s = "RECEIVED"    -> {"LISTED"}
      [] s = "LISTED"      -> {"SOLD"}
      [] s = "SOLD"        -> {}
      [] s = "CANCELLED"   -> {}

\* mutant: the terminal check covers SOLD only and a cancelled listing can be found again
can_transition_reopen_cancelled(from_state, to_state) ==
    IF from_state = "SOLD"
    THEN FALSE
    ELSE to_state \in (VALID_TRANSITIONS(from_state) \cup
                       (IF from_state = "CANCELLED" THEN {"FOUND"} ELSE {}))

\* LifecycleStateMachine.can_transition
can_transition(from_state, to_state) ==
    IF is_terminal(from_state)
    THEN FALSE
    ELSE to_state \in VALID_TRANSITIONS(from_state)

\* no exception raised
NoError == [type |-> "none"]

\* InvalidStateTransitionError(from_state, to_state): keeps both states; its
\* message lists the allowed set of from_state
InvalidStateTransitionError(from_state, to_state) ==
    [type       |-> "InvalidStateTransitionError",
     from_state |-> from_state,
     to_state   |-> to_state,
     allowed    |-> VALID_TRANSITIONS(from_state)]

\* mutant: the exception is built with its two states exchanged
validate_transition_swapped(from_state, to_state) ==
    IF ~can_transition(from_state, to_state)
    THEN InvalidStateTransitionError(to_state, from_state)
    ELSE NoError

\* LifecycleStateMachine.validate_transition: the exception raised, or NoError
validate_transition(from_state, to_state) ==
    IF ~can_transition(from_state, to_state)
    THEN InvalidStateTransitionError(from_state, to_state)
    ELSE NoError

\* LifecycleStateMachine.get_allowed_transitions
get_allowed_transitions(from_state) == VALID_TRANSITIONS(from_state)

(***************************************************************************)
(* Domain events (domain/events/domain_events.py).  Every event takes its  *)
(* event_id from uuid4() and its occurred_at from _utcnow().               *)
(***************************************************************************)
ListingCreatedEvent(event_id, occurred_at, listing_id, product_id, scraper_job_id) ==
    [type           |-> "ListingCreatedEvent",
     event_id       |-> event_id,
     occurred_at    |-> occurred_at,
     listing_id     |-> listing_id,
     product_id     |-> product_id,
     scraper_job_id |-> scraper_job_id]

\* mutant: the event carries the new state in both places
ListingStateChangedEvent_to_only(event_id, occurred_at, listing_id, from_state, to_state, triggered_by) ==
    [type         |-> "ListingStateChangedEvent",
     event_id     |-> event_id,
     occurred_at  |-> occurred_at,
     listing_id   |-> listing_id,
     from_state   |-> to_state,
     to_state     |-> to_state,
     triggered_by |-> triggered_by]

ListingStateChangedEvent(event_id, occurred_at, listing_id, from_state, to_state, triggered_by) ==
    [type         |-> "ListingStateChangedEvent",
     event_id     |-> event_id,
     occurred_at  |-> occurred_at,
     listing_id   |-> listing_id,
     from_state   |-> from_state,
     to_state     |-> to_state,
     triggered_by |-> triggered_by]

(***************************************************************************)
(* ProductListing aggregate (domain/entities/product_listing.py).          *)
(* uuid4() is modelled by a counter that hands out fresh values; `uuid` is *)
(* the next value, `now` the value _utcnow() returns during the call.      *)
(***************************************************************************)
\* the seven lifecycle timestamps transition_to can write
LifecycleAttrs ==
    {"messaged_at", "negotiating_at", "purchased_at", "received_at",
     "listed_at", "sold_at", "cancelled_at"}

\* the dataclass constructor with the field defaults of ProductListing
ProductListing(id, product_id, scraper_job_id, now) ==
    [id                |-> id,
     product_id        |-> product_id,
     state             |-> "FOUND",
     created_at        |-> now,
     updated_at        |-> now,
     state_changed_at  |-> now,
     found_at          |-> now,
     messaged_at       |-> NoTime,
     negotiating_at    |-> NoTime,
     purchased_at      |-> NoTime,
     received_at       |-> NoTime,
     listed_at         |-> NoTime,
     sold_at           |-> NoTime,
     cancelled_at      |-> NoTime,
     scraper_job_id    |-> scraper_job_id,
     error_message     |-> NoValue,
     error_occurred_at |-> NoTime,
     events            |-> << >>]

\* mutant: the event is built without listing_id, which then takes its default uuid4()
create_from_scraper_match_event_default_id(product_id, scraper_job_id, uuid, now) ==
    LET listing == ProductListing(uuid, product_id, scraper_job_id, now)
    IN  [listing EXCEPT !.events =
            Append(@, ListingCreatedEvent(uuid + 1, now, uuid + 2,
                                          product_id, scraper_job_id))]

\* ProductListing.create_from_scraper_match: uuid is the listing id,
\* uuid + 1 the id of the ListingCreated event
create_from_scraper_match(product_id, scraper_job_id, uuid, now) ==
    LET listing == ProductListing(uuid, product_id, scraper_job_id, now)
    IN  [listing EXCEPT !.events =
            Append(@, ListingCreatedEvent(uuid + 1, now, listing.id,
                                          product_id, scraper_job_id))]

\* mutant: the SOLD row names listed_at
lifecycle_attr_sold_as_listed(state) ==
    CASE state = "MESSAGING"   -> "messaged_at"
      [] state = "NEGOTIATING" -> "negotiating_at"
      [] state = "PURCHASED"   -> "purchased_at"
      [] state = "RECEIVED"    -> "received_at"
      [] state = "LISTED"      -> "listed_at"
      [] state = "SOLD"        -> "listed_at"
      [] state = "CANCELLED"   -> "cancelled_at"
      [] OTHER                 -> NoValue

\* the mapping of _apply_lifecycle_timestamp; NoValue when the state has no entry
lifecycle_attr(state) ==
    CASE state = "MESSAGING"   -> "messaged_at"
      [] state = "NEGOTIATING" -> "negotiating_at"
      [] state = "PURCHASED"   -> "purchased_at"
      [] state = "RECEIVED"    -> "received_at"
      [] state = "LISTED"      -> "listed_at"
      [] state = "SOLD"        -> "sold_at"
      [] state = "CANCELLED"   -> "cancelled_at"
      [] OTHER                 -> NoValue

\* ProductListing._apply_lifecycle_timestamp
apply_lifecycle_timestamp(self, state, now) ==
    LET attr == lifecycle_attr(state)
    IN  IF attr # NoValue THEN [self EXCEPT ![attr] = now] ELSE self

\* ProductListing.transition_to: the exception raised (or NoError) ...
transition_to_error(self, new_state) ==
    validate_transition(self.state, new_state)

\* mutant: the state is assigned before the validation runs
transition_to_assign_first(self, new_state, triggered_by, uuid, now) ==
    IF transition_to_error(self, new_state) # NoError
    THEN [self EXCEPT !.state = new_state]
    ELSE LET old_state == self.state
             s1 == [self EXCEPT !.state = new_state,
                                !.state_changed_at = now,
                                !.updated_at = now]
             s2 == apply_lifecycle_timestamp(s1, new_state, now)
         IN  [s2 EXCEPT !.events =
                 Append(@, ListingStateChangedEvent(uuid, now, self.id, old_state,
                                                    new_state, triggered_by))]

\* ... and the aggregate after the call; untouched when validation raised
transition_to(self, new_state, triggered_by, uuid, now) ==
    IF transition_to_error(self, new_state) # NoError
    THEN self
    ELSE LET old_state == self.state
             s1 == [self EXCEPT !.state = new_state,
                                !.state_changed_at = now,
                                !.updated_at = now]
             s2 == apply_lifecycle_timestamp(s1, new_state, now)
         IN  [s2 EXCEPT !.events =
                 Append(@, ListingStateChangedEvent(uuid, now, self.id, old_state,
                                                    new_state, triggered_by))]

\* mutant: state_changed_at is written in place of updated_at
record_error_state_changed_at(self, message, now) ==
    [self EXCEPT !.error_message = message,
                 !.error_occurred_at = now,
                 !.state_changed_at = now]

\* ProductListing.record_error
record_error(self, message, now) ==
    [self EXCEPT !.error_message = message,
                 !.error_occurred_at = now,
                 !.updated_at = now]

\* ProductListing.collect_events: the list returned ...
collect_events_result(self) == self.events

\* mutant: the buffer is not cleared
collect_events_keep(self) == self

\* ... and the aggregate left behind, its buffer cleared
collect_events(self) == [self EXCEPT !.events = << >>]

(***************************************************************************)
(* Persistence and messaging adapters (infrastructure).                    *)
(***************************************************************************)
\* _to_model: the row of a listing; the event buffer is not a column
to_model(listing) ==
    [f \in (DOMAIN listing) \ {"events"} |-> listing[f]]

\* mutant: the record is stored without the listing it belongs to
ProductStateHistoryModel_unowned(id, listing_id, from_state, to_state, triggered_by, metadata, now) ==
    [id |-> id, listing_id |-> 0, from_state |-> from_state, to_state |-> to_state,
     triggered_by |-> triggered_by, metadata |-> metadata, transitioned_at |-> now]

\* SqlAlchemyStateHistoryRepository.save: the row added; id comes from uuid4(),
\* transitioned_at from the server default now()
ProductStateHistoryModel(id, listing_id, from_state, to_state, triggered_by, metadata, now) ==
    [id              |-> id,
     listing_id      |-> listing_id,
     from_state      |-> from_state,
     to_state        |-> to_state,
     transitioned_at |-> now,
     triggered_by    |-> triggered_by,
     metadata        |-> metadata]

\* RabbitMQPublisher.publish: what reaches the exchange; a failure of
\* _blocking_publish is logged and not re-raised
publish(event, broker_up) ==
    IF broker_up THEN <<event>> ELSE << >>

\* publish_many: publish(event) for each event in turn
RECURSIVE publish_many(_, _)
publish_many(events, broker_up) ==
    IF events = << >>
    THEN << >>
    ELSE publish(Head(events), broker_up) \o publish_many(Tail(events), broker_up)

(***************************************************************************)
(* CreateListingsFromScraper (application/use_cases).                      *)
(***************************************************************************)
\* what can go wrong while one match is processed: the listing save raises,
\* the history save raises, the publisher port raises, or the broker is down
\* (which RabbitMQPublisher swallows)
Faults == {"none", "listing_save", "history_save", "publish", "broker"}

\* a ScraperMatch together with the fault met while it is processed
Matches == [product_id : ProductIds, fault : Faults]

\* CreateListingsFromScraperInput.matches
Batches == UNION {[1..n -> Matches] : n \in 0..MaxBatch}

\* CreateListingsFromScraperInput.brand
Brands == {"Sony"}

\* mutant: the except branch re-raises
on_exception_reraise(st) ==
    [st EXCEPT !.pc = "raised"]

\* mutant: the except branch leaves the loop
on_exception_break(st) ==
    [st EXCEPT !.skipped = @ + 1,
               !.outcomes = Append(@, "skipped"),
               !.i = Len(st.matches) + 1]

\* execute, the except branch: skipped += 1, on to the next match
on_exception(st) ==
    [st EXCEPT !.skipped = @ + 1,
               !.outcomes = Append(@, "skipped"),
               !.i = @ + 1]

\* execute, the end of the try block: created_ids.append(listing.id)
on_created(st, listing_id) ==
    [st EXCEPT !.created_ids = Append(@, listing_id),
               !.outcomes = Append(@, "created"),
               !.i = @ + 1]

\* CreateListingsFromScraperOutput
Output(st) ==
    [created_listing_ids |-> st.created_ids, skipped_count |-> st.skipped]

\* a call a use case makes on one of its ports: the port method, what it was
\* given, and whether the call raised
PortCall(port, arg, raised) ==
    [port |-> port, arg |-> arg, raised |-> raised]

\* mutant: RabbitMQPublisher.publish re-raises what _blocking_publish raised
port_raises_broker_failure(fault) == fault \in {"publish", "broker"}

\* publish_many raises: the publisher port does (no publisher of src/ does);
\* a broker that is down does not make RabbitMQPublisher raise
port_raises(fault) == fault = "publish"

\* what a publish_many that raised leaves the caller with
PublishError == [type |-> "PublishError"]

\* mutant: the history save and the publish come before the listing save
match_calls_save_last(row, history_row, events, fault) ==
    <<PortCall("history_repo.save", history_row, fault = "history_save"),
      PortCall("event_publisher.publish_many", [events |-> events], port_raises(fault)),
      PortCall("listing_repo.save", row, fault = "listing_save")>>

\* execute, the try block of one pass: the calls made on the ports, in the
\* order of the code, up to the first one that raises
match_calls(row, history_row, events, fault) ==
    <<PortCall("listing_repo.save", row, fault = "listing_save")>>
    \o (IF fault = "listing_save"
        THEN << >>
        ELSE <<PortCall("history_repo.save", history_row, fault = "history_save")>>)
    \o (IF fault \in {"listing_save", "history_save"}
        THEN << >>
        ELSE <<PortCall("event_publisher.publish_many", [events |-> events],
                        port_raises(fault))>>)

(***************************************************************************)
(* State.                                                                  *)
(***************************************************************************)
VARIABLES
    sm,          \* the last call made on the stateless LifecycleStateMachine
    agg,         \* the ProductListing instance a caller holds (NoListing before the factory ran)
    clock,       \* the wall clock read by _utcnow()
    nextUuid,    \* the next value uuid4() returns
    created,     \* every aggregate the factory has returned, in order, as returned
    entered,     \* states the held aggregate has been in
    happy,       \* how many calls of the happy path were made, in order, on the held aggregate
    collected,   \* event ids returned by collect_events so far, in order
    actor,       \* who the caller holding the aggregate is (its triggered_by)
    last,        \* the last call made on the aggregate: arguments, outcome, aggregate before it
    listings,    \* rows of the product_listings table, in insertion order
    history,     \* rows of the product_state_history table, in insertion order
    published,   \* events delivered to the exchange, in order
    ing,         \* the running call of CreateListingsFromScraper.execute
    calls,       \* the calls the running use case has made on its ports, in order
    tr,          \* the last call of TransitionListingState.execute
    poll,        \* the running task poll_scraper_and_process
    scrape,      \* the scraper container, the trigger flows, the jobs and their polling tasks
    query,       \* the last call of SqlAlchemyListingRepository.list_all
    race,        \* the transition requests in flight, each with its own database session
    rotation     \* the search_rotation table and the rows get_next_search has returned

ingVars == <<listings, history, published, ing, calls, tr, poll>>

opsVars == <<scrape, query, race, rotation>>

vars == <<sm, agg, clock, nextUuid, created, entered, happy, collected, actor, last,
          listings, history, published, ing, calls, tr, poll, scrape, query, race,
          rotation>>

\* no aggregate constructed yet
NoListing == [state |-> NoValue, events |-> << >>]

\* _utcnow(): the current reading of the wall clock
utcnow == clock

\* the record of a call on the aggregate: its operation, the target state or
\* the message given, the exception raised, the aggregate before the call and
\* the list returned
Call(op, to, msg, error, before, returned) ==
    [op |-> op, to |-> to, msg |-> msg, error |-> error,
     before |-> before, returned |-> returned]

NoCall == Call("none", NoValue, NoValue, NoError, NoListing, << >>)

\* the arguments _make_listing() of the entity tests gives the factory
DefaultProductId == 230

DefaultJobId == "job-1"

\* the order of tests/unit test_full_happy_path
HappyPath ==
    <<"MESSAGING", "NEGOTIATING", "PURCHASED", "RECEIVED", "LISTED", "SOLD">>

(***************************************************************************)
(* Specification SpecSM: calls on the state machine, for every pair of     *)
(* states.                                                                 *)
(***************************************************************************)
SmCall(from_state, to_state, op, can, error, allowed) ==
    [from_state |-> from_state, to_state |-> to_state, op |-> op,
     can |-> can, error |-> error, allowed |-> allowed]

\* no call of the ingestion use case yet
NoIngestion ==
    [pc |-> "idle", job_id |-> NoValue, brand |-> NoValue, matches |-> << >>,
     i |-> 1, created_ids |-> << >>, skipped |-> 0, outcomes |-> << >>]

\* TransitionListingStateOutput, before any call returned one
NoOutput == [listing_id |-> 0, from_state |-> NoValue, to_state |-> NoValue]

\* no call of the transition use case yet
NoTransition ==
    [pc |-> "idle", listing_id |-> 0, to_state |-> NoValue, reason |-> NoValue,
     broker_up |-> TRUE, error |-> NoError, output |-> NoOutput,
     listing |-> NoListing,
     before |-> [listings |-> << >>, history |-> << >>, published |-> << >>],
     applied |-> << >>]

\* the polling task has not been started
NoPoll ==
    [pc |-> "idle", job_id |-> NoValue, brand |-> NoValue, poll_count |-> 0,
     sleeps |-> 0, queries |-> 0, status |-> "none", seen |-> "pending",
     matches |-> << >>, path |-> "none", created_ids |-> << >>]

\* the two triggers of a scrape: the route admin/scrape/trigger and the timer
Triggers == {"http", "timer"}

\* a trigger that has not fired
NoFlow == [pc |-> "idle", steps |-> << >>, job_id |-> NoValue, report |-> NoValue]

\* no polling task created for a job
NoTask == [pc |-> "none", poll_count |-> 0, path |-> "none"]

\* the deployment before any trigger: the container group is stopped, the
\* scraper holds no job, no task runs
NoScrape ==
    [container |-> "stopped",
     flows |-> [k \in Triggers |-> NoFlow],
     jobs |-> [j \in JobIds |-> "none"],
     tasks |-> [j \in JobIds |-> NoTask]]

\* list_all not called yet
NoQuery ==
    [pc |-> "idle", state |-> NoValue, brand |-> NoValue, limit |-> 0, offset |-> 0,
     listings |-> << >>, total |-> 0]

\* the callers of POST /listings/{listing_id}/transition
Requests == {"first", "second"}

\* a request not made yet
NoRequest ==
    [pc |-> "idle", to_state |-> NoValue, from_state |-> NoValue,
     model |-> NoListing, listing |-> NoListing]

\* rows of the search_rotation table, and calls of get_next_search made on it
MaxRotationRows == 3

MaxSearches == 7

\* the rows of search_rotation are numbered by their id
RotationIds == 1..MaxRotationRows

\* no rotation table in use, no call of get_next_search made
NoRotation ==
    [rows |-> [id \in RotationIds |->
                  [enabled |-> FALSE, last_searched |-> FALSE,
                   last_searched_at |-> NoTime, updated_at |-> NoTime]],
     returned |-> << >>]

OpsIdle ==
    /\ scrape = NoScrape
    /\ query = NoQuery
    /\ race = [r \in Requests |-> NoRequest]
    /\ rotation = NoRotation

IngIdle ==
    /\ listings = << >>
    /\ history = << >>
    /\ published = << >>
    /\ ing = NoIngestion
    /\ calls = << >>
    /\ tr = NoTransition
    /\ poll = NoPoll

AggIdle ==
    /\ agg = NoListing
    /\ clock = 0
    /\ nextUuid = 1
    /\ created = << >>
    /\ entered = {}
    /\ happy = -1
    /\ collected = << >>
    /\ last = NoCall

InitSM ==
    /\ \E f \in ListingState, t \in ListingState :
          sm = SmCall(f, t, "none", FALSE, NoError, {})
    /\ AggIdle
    /\ OpsIdle
    /\ IngIdle
    /\ actor = NoValue

CanTransition ==
    /\ sm' = [sm EXCEPT !.op = "can_transition",
                        !.can = can_transition(sm.from_state, sm.to_state),
                        !.error = NoError,
                        !.allowed = {}]
    /\ UNCHANGED <<opsVars, agg, clock, nextUuid, created, entered, happy, collected, actor, last, ingVars>>

ValidateTransition ==
    /\ sm' = [sm EXCEPT !.op = "validate_transition",
                        !.can = FALSE,
                        !.error = validate_transition(sm.from_state, sm.to_state),
                        !.allowed = {}]
    /\ UNCHANGED <<opsVars, agg, clock, nextUuid, created, entered, happy, collected, actor, last, ingVars>>

GetAllowedTransitions ==
    /\ sm' = [sm EXCEPT !.op = "get_allowed_transitions",
                        !.can = FALSE,
                        !.error = NoError,
                        !.allowed = get_allowed_transitions(sm.from_state)]
    /\ UNCHANGED <<opsVars, agg, clock, nextUuid, created, entered, happy, collected, actor, last, ingVars>>

NextSM ==
    \/ CanTransition
    \/ ValidateTransition
    \/ GetAllowedTransitions

SpecSM == InitSM /\ [][NextSM]_vars

(***************************************************************************)
(* Specification SpecAgg: a caller that obtains aggregates from the        *)
(* factory and calls transition_to, record_error and collect_events on the *)
(* one it holds, in any order and with any arguments.                      *)
(***************************************************************************)
SmIdle == sm = SmCall("FOUND", "FOUND", "none", FALSE, NoError, {})

InitAgg ==
    /\ SmIdle
    /\ AggIdle
    /\ OpsIdle
    /\ IngIdle
    /\ actor \in Actors

\* the happy-path counter after a transition_to(new_state) call
HappyAfter(new_state) ==
    IF happy = 6 THEN 6
    ELSE IF happy >= 0 /\ new_state = HappyPath[happy + 1] THEN happy + 1
    ELSE -1

\* _make_listing() of the entity tests: the factory with the default arguments
MakeListing ==
    /\ agg = NoListing
    /\ agg' = create_from_scraper_match(DefaultProductId, DefaultJobId, nextUuid, utcnow)
    /\ nextUuid' = nextUuid + 2
    /\ entered' = {agg'.state}
    /\ happy' = 0
    /\ last' = Call("create_from_scraper_match", NoValue, NoValue, NoError, agg, << >>)
    /\ UNCHANGED <<opsVars, sm, clock, created, collected, actor, ingVars>>

TransitionTo(new_state) ==
    /\ agg # NoListing
    /\ agg' = transition_to(agg, new_state, actor, nextUuid, utcnow)
    /\ nextUuid' = IF transition_to_error(agg, new_state) = NoError
                   THEN nextUuid + 1 ELSE nextUuid
    /\ entered' = entered \cup {agg'.state}
    /\ happy' = HappyAfter(new_state)
    /\ last' = Call("transition_to", new_state, NoValue,
                    transition_to_error(agg, new_state), agg, << >>)
    /\ UNCHANGED <<opsVars, sm, clock, created, collected, actor, ingVars>>

RecordError(message) ==
    /\ agg # NoListing
    /\ agg' = record_error(agg, message, utcnow)
    /\ last' = Call("record_error", NoValue, message, NoError, agg, << >>)
    /\ UNCHANGED <<opsVars, sm, clock, nextUuid, created, entered, happy, collected, actor, ingVars>>

CollectEvents ==
    /\ agg # NoListing
    /\ agg' = collect_events(agg)
    /\ last' = Call("collect_events", NoValue, NoValue, NoError, agg,
                    collect_events_result(agg))
    /\ collected' = collected \o [k \in 1..Len(collect_events_result(agg)) |->
                                     collect_events_result(agg)[k].event_id]
    /\ UNCHANGED <<opsVars, sm, clock, nextUuid, created, entered, happy, actor, ingVars>>

\* time passes between calls
Tick ==
    /\ clock < MaxClock
    /\ clock' = clock + 1
    /\ UNCHANGED <<opsVars, sm, agg, nextUuid, created, entered, happy, collected, actor, last, ingVars>>

NextAgg ==
    \/ MakeListing
    \/ \E s \in ListingState : TransitionTo(s)
    \/ \E m \in Messages : RecordError(m)
    \/ CollectEvents
    \/ Tick

SpecAgg == InitAgg /\ [][NextAgg]_vars

(***************************************************************************)
(* Specification SpecFactory: successive calls of the factory, for every   *)
(* choice of arguments, with time passing in between.                      *)
(***************************************************************************)
FactoryCall(product_id, scraper_job_id) ==
    /\ Len(created) < MaxCreated
    /\ created' = Append(created,
                         create_from_scraper_match(product_id, scraper_job_id,
                                                   nextUuid, utcnow))
    /\ nextUuid' = nextUuid + 2
    /\ UNCHANGED <<opsVars, sm, agg, clock, entered, happy, collected, actor, last, ingVars>>

NextFactory ==
    \/ \E p \in ProductIds, j \in JobIds : FactoryCall(p, j)
    \/ Tick

InitFactory ==
    /\ SmIdle
    /\ AggIdle
    /\ OpsIdle
    /\ IngIdle
    /\ actor = NoValue

SpecFactory == InitFactory /\ [][NextFactory]_vars

(***************************************************************************)
(* Specification SpecIngest: one call of CreateListingsFromScraper.execute *)
(* for every batch of matches and every pattern of faults, one pass of the *)
(* loop per step.                                                          *)
(***************************************************************************)
InitIngest ==
    /\ SmIdle
    /\ AggIdle
    /\ OpsIdle
    /\ IngIdle
    /\ actor = NoValue

\* execute is called with some input_data, for a job of jobs and a batch of
\* batches
ExecuteOf(jobs, batches) ==
    /\ ing.pc = "idle"
    /\ \E job_id \in jobs, brand \in Brands, matches \in batches :
          ing' = [NoIngestion EXCEPT !.pc = "running", !.job_id = job_id,
                                    !.brand = brand, !.matches = matches]
    /\ calls' = << >>
    /\ UNCHANGED <<opsVars, sm, agg, clock, nextUuid, created, entered, happy, collected,
                   actor, last, listings, history, published, tr, poll>>

Execute == ExecuteOf(JobIds, Batches)

\* one pass of the for loop: factory, listing save, history save,
\* collect_events, publish_many, created_ids.append; or the except branch
ExecuteMatch ==
    /\ ing.pc = "running"
    /\ ing.i <= Len(ing.matches)
    /\ LET match     == ing.matches[ing.i]
           listing   == create_from_scraper_match(match.product_id, ing.job_id,
                                                  nextUuid, utcnow)
           saved     == match.fault # "listing_save"
           recorded  == saved /\ match.fault # "history_save"
           events    == collect_events_result(listing)
           completed == recorded /\ ~port_raises(match.fault)
           row       == ProductStateHistoryModel(
                            nextUuid + 2, listing.id, NoValue, "FOUND",
                            "scraper_webhook",
                            [job_id |-> ing.job_id, brand |-> ing.brand],
                            utcnow)
       IN  /\ listings' = IF saved
                          THEN Append(listings, to_model(listing))
                          ELSE listings
           /\ history' = IF recorded THEN Append(history, row) ELSE history
           /\ calls' = calls \o match_calls(to_model(listing), row, events, match.fault)
           /\ published' = IF completed
                           THEN published \o publish_many(events, match.fault # "broker")
                           ELSE published
           /\ nextUuid' = IF saved THEN nextUuid + 3 ELSE nextUuid + 2
           /\ ing' = IF completed THEN on_created(ing, listing.id) ELSE on_exception(ing)
    /\ UNCHANGED <<opsVars, sm, agg, clock, created, entered, happy, collected, actor, last, tr, poll>>

\* the loop is over: execute returns its output
ExecuteReturn ==
    /\ ing.pc = "running"
    /\ ing.i > Len(ing.matches)
    /\ ing' = [ing EXCEPT !.pc = "returned"]
    /\ UNCHANGED <<opsVars, sm, agg, clock, nextUuid, created, entered, happy, collected,
                   actor, last, listings, history, published, calls, tr, poll>>

NextIngest ==
    \/ Execute
    \/ ExecuteMatch
    \/ ExecuteReturn
    \/ Tick

SpecIngest == InitIngest /\ [][NextIngest]_vars

(***************************************************************************)
(* TransitionListingState (application/use_cases) over the SQLAlchemy      *)
(* listing repository.                                                     *)
(***************************************************************************)
\* an identity no row has
UnknownId == 0

\* TransitionListingStateInput.reason
Reasons == {NoValue, "seller stopped replying"}

\* _to_domain: the aggregate rebuilt from a row; its event buffer starts empty
to_domain(model) ==
    [f \in (DOMAIN model) \cup {"events"} |-> IF f = "events" THEN << >> ELSE model[f]]

\* session.get(ProductListingModel, id): the position of the row, 0 for None
session_get(rows, id) ==
    IF \E k \in 1..Len(rows) : rows[k].id = id
    THEN CHOOSE k \in 1..Len(rows) : rows[k].id = id
    ELSE 0

\* SqlAlchemyListingRepository.get_by_id
get_by_id(rows, listing_id) ==
    IF session_get(rows, listing_id) = 0
    THEN NoListing
    ELSE to_domain(rows[session_get(rows, listing_id)])

\* the columns save() writes to a row that already exists
SavedColumns ==
    {"state", "state_changed_at", "updated_at", "error_message", "error_occurred_at"}
        \cup LifecycleAttrs

\* mutant: the update of an existing row leaves its state column alone
save_without_state(rows, listing) ==
    IF session_get(rows, listing.id) = 0
    THEN Append(rows, to_model(listing))
    ELSE [rows EXCEPT ![session_get(rows, listing.id)] =
             [f \in DOMAIN @ |-> IF f \in SavedColumns \ {"state"} THEN listing[f] ELSE @[f]]]

\* SqlAlchemyListingRepository.save
save(rows, listing) ==
    IF session_get(rows, listing.id) = 0
    THEN Append(rows, to_model(listing))
    ELSE [rows EXCEPT ![session_get(rows, listing.id)] =
             [f \in DOMAIN @ |-> IF f \in SavedColumns THEN listing[f] ELSE @[f]]]

\* mutant: the identity that is not found is reported as an invalid transition
ListingNotFoundError_as_invalid(listing_id) ==
    [type |-> "InvalidStateTransitionError", from_state |-> NoValue,
     to_state |-> NoValue, allowed |-> {}]

ListingNotFoundError(listing_id) ==
    [type |-> "ListingNotFoundError", listing_id |-> listing_id]

\* execute: the exception the call ends with, NoError when it returns
execute_error(listing_id, listing, to_state) ==
    IF listing = NoListing
    THEN ListingNotFoundError(listing_id)
    ELSE transition_to_error(listing, to_state)

\* execute: the metadata of the history record
transition_metadata(triggered_by, reason) ==
    IF reason # NoValue
    THEN [triggered_by |-> triggered_by, reason |-> reason]
    ELSE [triggered_by |-> triggered_by]

\* mutant: the events are published before anything is persisted
transition_calls_publish_first(row, history_row, events, fault) ==
    <<PortCall("event_publisher.publish_many", [events |-> events], port_raises(fault)),
      PortCall("listing_repo.save", row, FALSE),
      PortCall("history_repo.save", history_row, FALSE)>>

\* execute, after the transition: the calls made on the ports, in the order
\* of the code
transition_calls(row, history_row, events, fault) ==
    <<PortCall("listing_repo.save", row, FALSE),
      PortCall("history_repo.save", history_row, FALSE),
      PortCall("event_publisher.publish_many", [events |-> events], port_raises(fault))>>

TransitionListingStateOutput(listing_id, from_state, to_state) ==
    [listing_id |-> listing_id, from_state |-> from_state, to_state |-> to_state]

(***************************************************************************)
(* Specification SpecTransition: successive calls of                       *)
(* TransitionListingState.execute, for every input, after the ingestion    *)
(* use case put one listing into the database; the broker is up or down at *)
(* each call, and the caller gives the same reason, or none, each time.    *)
(* The calls follow one another within one reading of the clock.           *)
(***************************************************************************)
\* the batches that put the listing into the database: one match, saved and
\* recorded, its event delivered or lost to a broker that is down
SeedBatches == {<<[product_id |-> DefaultProductId, fault |-> f]>> : f \in {"none", "broker"}}

ExecuteSeed == ExecuteOf({DefaultJobId}, SeedBatches)

InitTransition ==
    /\ SmIdle
    /\ AggIdle
    /\ OpsIdle
    /\ listings = << >>
    /\ history = << >>
    /\ published = << >>
    /\ ing = NoIngestion
    /\ calls = << >>
    /\ \E reason \in Reasons : tr = [NoTransition EXCEPT !.reason = reason]
    /\ poll = NoPoll
    /\ actor \in Actors

\* the identities of the rows of the product_listings table
ListingIds == {listings[k].id : k \in 1..Len(listings)}

\* one call of execute, from get_by_id to the return or the raise
TransitionExecute ==
    \E listing_id \in ListingIds \cup {UnknownId}, to_state \in ListingState,
       broker_up \in BOOLEAN :
        LET reason      == tr.reason
            loaded      == get_by_id(listings, listing_id)
            error       == execute_error(listing_id, loaded, to_state)
            from_state  == loaded.state
            listing     == transition_to(loaded, to_state, actor, nextUuid, utcnow)
            history_row == ProductStateHistoryModel(
                               nextUuid + 1, listing.id, from_state, to_state, actor,
                               transition_metadata(actor, reason), utcnow)
            events      == collect_events_result(listing)
            ok          == error = NoError
            fault       == IF broker_up THEN "none" ELSE "broker"
            returned    == ok /\ ~port_raises(fault)
        IN  /\ listings' = IF ok THEN save(listings, listing) ELSE listings
            /\ history' = IF ok THEN Append(history, history_row) ELSE history
            /\ published' = IF returned
                            THEN published \o publish_many(events, broker_up)
                            ELSE published
            /\ calls' = IF ok
                        THEN transition_calls(to_model(listing), history_row, events, fault)
                        ELSE << >>
            /\ nextUuid' = IF ok THEN nextUuid + 2 ELSE nextUuid
            /\ tr' = [pc        |-> IF returned THEN "returned" ELSE "raised",
                      listing_id |-> listing_id,
                      to_state  |-> to_state,
                      reason    |-> reason,
                      broker_up |-> broker_up,
                      error     |-> IF ok /\ ~returned THEN PublishError ELSE error,
                      output    |-> IF returned
                                    THEN TransitionListingStateOutput(
                                             listing.id, from_state, to_state)
                                    ELSE NoOutput,
                      listing   |-> IF ok THEN collect_events(listing) ELSE loaded,
                      before    |-> [listings |-> listings, history |-> history,
                                     published |-> published],
                      applied   |-> IF ok THEN Append(tr.applied, listing_id)
                                    ELSE tr.applied]
            /\ UNCHANGED <<opsVars, sm, agg, clock, created, entered, happy, collected, actor,
                           last, ing, poll>>

NextTransition ==
    \/ ExecuteSeed
    \/ ExecuteMatch
    \/ ExecuteReturn
    \/ ing.pc = "returned" /\ TransitionExecute

SpecTransition == InitTransition /\ [][NextTransition]_vars

(***************************************************************************)
(* poll_scraper_and_process and process_scraper_matches (function_app.py). *)
(***************************************************************************)
max_polls == 40

\* status_data.get("status"): the five values the task knows, one it does
\* not, and None for a reply without the key
Statuses == {"completed", "failed", "error", "pending", "running", "queued", NoValue}

\* what can go wrong while process_scraper_matches handles one match
PollFaults == {"none", "listing_save"}

\* result.get("matches", []) of a completed job
PollMatchLists ==
    UNION {[1..n -> [product_id : {DefaultProductId}, fault : PollFaults]] :
              n \in 0..MaxPollMatches}

\* the database session and the exchange process_scraper_matches works on, the
\* uuid4 counter, and the ids it has collected
ProcessState(rows, records, delivered, uuid, created_ids) ==
    [listings |-> rows, history |-> records, published |-> delivered,
     nextUuid |-> uuid, created_ids |-> created_ids]

\* mutant: the events are published before the history record is saved
process_match_publish_first(st, job_id, brand, match, now) ==
    LET listing == create_from_scraper_match(match.product_id, job_id, st.nextUuid, now)
        saved   == match.fault # "listing_save"
        row     == ProductStateHistoryModel(st.nextUuid + 2, listing.id, NoValue, "FOUND",
                                            "scraper_polling",
                                            [job_id |-> job_id, brand |-> brand], now)
    IN  IF saved
        THEN ProcessState(Append(st.listings, to_model(listing)),
                          IF match.fault \in {"history_save", "publish"}
                          THEN st.history ELSE Append(st.history, row),
                          IF port_raises(match.fault)
                          THEN st.published
                          ELSE st.published
                                   \o publish_many(collect_events_result(listing),
                                                   match.fault # "broker"),
                          st.nextUuid + 3,
                          IF match.fault \in {"history_save", "publish"}
                          THEN st.created_ids ELSE Append(st.created_ids, listing.id))
        ELSE [st EXCEPT !.nextUuid = @ + 2]

\* process_scraper_matches: one pass of the for loop; what raises inside the
\* try block ends the pass and leaves what the pass had done before
process_match(st, job_id, brand, match, now) ==
    LET listing   == create_from_scraper_match(match.product_id, job_id, st.nextUuid, now)
        saved     == match.fault # "listing_save"
        recorded  == saved /\ match.fault # "history_save"
        completed == recorded /\ ~port_raises(match.fault)
        row       == ProductStateHistoryModel(st.nextUuid + 2, listing.id, NoValue, "FOUND",
                                              "scraper_polling",
                                              [job_id |-> job_id, brand |-> brand], now)
    IN  IF saved
        THEN ProcessState(Append(st.listings, to_model(listing)),
                          IF recorded THEN Append(st.history, row) ELSE st.history,
                          IF completed
                          THEN st.published
                                   \o publish_many(collect_events_result(listing),
                                                   match.fault # "broker")
                          ELSE st.published,
                          st.nextUuid + 3,
                          IF completed
                          THEN Append(st.created_ids, listing.id)
                          ELSE st.created_ids)
        ELSE [st EXCEPT !.nextUuid = @ + 2]

\* process_scraper_matches: the for loop
RECURSIVE process_matches(_, _, _, _, _)
process_matches(st, job_id, brand, matches, now) ==
    IF matches = << >>
    THEN st
    ELSE process_matches(process_match(st, job_id, brand, Head(matches), now),
                         job_id, brand, Tail(matches), now)

\* process_scraper_matches: session.commit() and the return; a commit that
\* raises leaves the tables as they were, the events already sent stay sent
process_scraper_matches(st, job_id, brand, matches, now, commit_ok) ==
    LET done == process_matches([st EXCEPT !.created_ids = << >>],
                                job_id, brand, matches, now)
    IN  IF commit_ok
        THEN done
        ELSE [done EXCEPT !.listings = st.listings, !.history = st.history,
                          !.created_ids = << >>]

\* mutant: an unknown status ends the task like failed does
poll_branch_unknown_fails(status) ==
    CASE status = "completed" -> "completed"
      [] status \in {"pending", "running"} -> "continue"
      [] OTHER -> "failed"

\* mutant: a failed job is polled again
poll_branch_failed_continues(status) ==
    CASE status = "completed" -> "completed"
      [] OTHER -> "continue"

\* the if / elif chain on the status
poll_branch(status) ==
    CASE status = "completed" -> "completed"
      [] status \in {"failed", "error"} -> "failed"
      [] status \in {"pending", "running"} -> "continue"
      [] OTHER -> "continue"

\* mutant: a job still pending costs two attempts
on_continue_counts(st) ==
    [st EXCEPT !.poll_count = @ + 1, !.pc = "loop"]

\* mutant: a job still pending gives its attempt back
on_continue_uncounted(st) ==
    [st EXCEPT !.poll_count = @ - 1, !.pc = "loop"]

\* continue: back to the loop test
on_continue(st) ==
    [st EXCEPT !.pc = "loop"]

\* the except branch of the loop: poll_count += 1, continue
on_poll_exception(st) ==
    [st EXCEPT !.poll_count = @ + 1, !.pc = "loop"]

\* mutant: the matches are processed and the job is polled again
on_processed_continue(st, created_ids) ==
    [st EXCEPT !.created_ids = created_ids, !.pc = "loop"]

\* mutant: the task returns right after the ingestion
on_processed_returns(st, created_ids) ==
    [st EXCEPT !.created_ids = created_ids, !.pc = "done"]

\* process_scraper_matches returned: on to the stop of the container
on_processed(st, created_ids) ==
    [st EXCEPT !.created_ids = created_ids, !.pc = "stop"]

\* mutant: what stop_container raises reaches the except branch of the loop
on_stop_failure_outer(st) ==
    IF st.path = "ceiling" THEN [st EXCEPT !.pc = "raised"] ELSE on_poll_exception(st)

\* the except branches around stop_container: log or pass, then return
on_stop_failure(st) ==
    [st EXCEPT !.pc = "done"]

\* what the task has seen before its latest status query: only pending, only
\* pending and running, or something else
seen_after(seen, status) ==
    CASE status \in {"none", "pending"} -> seen
      [] status = "running" -> IF seen = "pending" THEN "waiting" ELSE seen
      [] OTHER -> "other"

(***************************************************************************)
(* Specification SpecPoll: one task poll_scraper_and_process, for every    *)
(* sequence of replies and failures of the status query, every match list  *)
(* of a completed job, and a commit and a container stop that succeed or   *)
(* fail.  One await per step.                                              *)
(***************************************************************************)
InitPoll ==
    /\ SmIdle
    /\ AggIdle
    /\ OpsIdle
    /\ IngIdle
    /\ actor = NoValue

\* the calls of process_scraper_matches that raised
CommitFailures ==
    {c \in 1..Len(calls) : calls[c].port = "process_scraper_matches" /\ calls[c].raised}

\* asyncio.create_task(poll_scraper_and_process(job_id, brand, search_term))
PollStart ==
    /\ poll.pc = "idle"
    /\ \E job_id \in {DefaultJobId}, brand \in Brands :
          poll' = [NoPoll EXCEPT !.pc = "loop", !.job_id = job_id, !.brand = brand]
    /\ calls' = << >>
    /\ UNCHANGED <<opsVars, sm, agg, clock, nextUuid, created, entered, happy, collected,
                   actor, last, listings, history, published, ing, tr>>

\* while poll_count < max_polls: await asyncio.sleep(180); poll_count += 1
PollSleep ==
    /\ poll.pc = "loop"
    /\ poll.poll_count < max_polls
    /\ poll' = [poll EXCEPT !.sleeps = @ + 1, !.poll_count = @ + 1, !.pc = "query"]
    /\ UNCHANGED <<opsVars, sm, agg, clock, nextUuid, created, entered, happy, collected,
                   actor, last, listings, history, published, ing, calls, tr>>

\* await coordinator.get_job_status(job_id) raises
PollQueryRaises ==
    /\ poll.pc = "query"
    /\ poll' = on_poll_exception([poll EXCEPT !.queries = @ + 1,
                                              !.seen = seen_after(@, poll.status),
                                              !.status = "raise"])
    /\ UNCHANGED <<opsVars, sm, agg, clock, nextUuid, created, entered, happy, collected,
                   actor, last, listings, history, published, ing, calls, tr>>

\* mutant: the ingestion is called for an empty match list too
on_completed_always_processes(st, matches) ==
    [st EXCEPT !.matches = matches, !.path = "completed", !.pc = "process"]

\* the completed branch: matches = result.get("matches", []); if matches: the
\* ingestion, else straight on to the stop of the container
on_completed(st, matches) ==
    [st EXCEPT !.matches = matches,
               !.path = "completed",
               !.pc = IF matches # << >> THEN "process" ELSE "stop"]

\* await coordinator.get_job_status(job_id) returns, and the branch on the status
PollQuery ==
    /\ poll.pc = "query"
    /\ \E status \in Statuses, matches \in PollMatchLists :
          LET st == [poll EXCEPT !.queries = @ + 1,
                                 !.seen = seen_after(@, poll.status),
                                 !.status = status]
          IN  CASE poll_branch(status) = "completed" ->
                       poll' = on_completed(st, matches)
                [] poll_branch(status) = "failed" ->
                       /\ matches = << >>
                       /\ poll' = [st EXCEPT !.path = "failed", !.pc = "stop"]
                [] OTHER ->
                       /\ matches = << >>
                       /\ poll' = on_continue(st)
    /\ UNCHANGED <<opsVars, sm, agg, clock, nextUuid, created, entered, happy, collected,
                   actor, last, listings, history, published, ing, calls, tr>>

\* created_ids = await process_scraper_matches(job_id, brand, matches)
PollProcess ==
    /\ poll.pc = "process"
    /\ \E commit_ok \in BOOLEAN :
          /\ ~commit_ok => Cardinality(CommitFailures) < MaxCommitFailures
          /\ LET st == process_scraper_matches(
                           ProcessState(listings, history, published, nextUuid, << >>),
                           poll.job_id, poll.brand, poll.matches, utcnow, commit_ok)
             IN  /\ listings' = st.listings
                 /\ history' = st.history
                 /\ published' = st.published
                 /\ nextUuid' = st.nextUuid
                 /\ calls' = Append(calls, PortCall("process_scraper_matches",
                                                    [matches |-> poll.matches],
                                                    ~commit_ok))
                 /\ poll' = IF commit_ok
                            THEN on_processed(poll, st.created_ids)
                            ELSE on_poll_exception(poll)
    /\ UNCHANGED <<opsVars, sm, agg, clock, created, entered, happy, collected, actor, last,
                   ing, tr>>

\* the loop ends with poll_count at max_polls: on to the stop of the container
PollTimeout ==
    /\ poll.pc = "loop"
    /\ poll.poll_count >= max_polls
    /\ poll' = [poll EXCEPT !.path = "ceiling", !.pc = "stop"]
    /\ UNCHANGED <<opsVars, sm, agg, clock, nextUuid, created, entered, happy, collected,
                   actor, last, listings, history, published, ing, calls, tr>>

\* await container_manager.stop_container(...), inside its own try, and the
\* return that follows
PollStop ==
    /\ poll.pc = "stop"
    /\ \E stopped \in BOOLEAN :
          /\ calls' = Append(calls, PortCall("container_manager.stop_container",
                                             [path |-> poll.path], ~stopped))
          /\ poll' = IF stopped THEN [poll EXCEPT !.pc = "done"] ELSE on_stop_failure(poll)
    /\ UNCHANGED <<opsVars, sm, agg, clock, nextUuid, created, entered, happy, collected,
                   actor, last, listings, history, published, ing, tr>>

NextPoll ==
    \/ PollStart
    \/ PollSleep
    \/ PollQueryRaises
    \/ PollQuery
    \/ PollProcess
    \/ PollTimeout
    \/ PollStop

SpecPoll == InitPoll /\ [][NextPoll]_vars

\* every call the task awaits returns or raises, and the event loop resumes
\* the task each time: the task takes its next step whenever it has one
FairSpecPoll == SpecPoll /\ WF_vars(NextPoll)

(***************************************************************************)
(* Specification SpecScrape: the deployment.  The route and the timer each *)
(* fire once; each flow starts the container group, waits, submits a job   *)
(* and creates the polling task of that job.  The tasks run concurrently   *)
(* on one event loop, one await per step, and all of them use the one      *)
(* module-level container_manager and the one container group              *)
(* settings.azure_scraper_container.  The jobs carry no matches here.      *)
(***************************************************************************)
\* the steps of a trigger flow, in the order of the source text
FlowSteps == <<"start_container", "sleep", "trigger_scrape", "create_task">>

\* one step a flow has taken, and whether it raised
Step(name, raised) == [step |-> name, raised |-> raised]

\* the HttpResponse with status 500 and an error body; the timer has no
\* caller and reports with logging.error
failure_report(trigger) ==
    [status_code |-> IF trigger = "http" THEN 500 ELSE NoValue, error |-> TRUE]

\* the HttpResponse with the job id (status 200); the timer logs the job id
started_report(trigger) ==
    [status_code |-> IF trigger = "http" THEN 200 ELSE NoValue, error |-> FALSE]

\* mutant: a failed start is logged and the flow goes on to submit the job
on_start_failure_submits(flow, trigger) ==
    [flow EXCEPT !.pc = "submit"]

\* the except branch around start_container and the warm-up sleep
on_start_failure(flow, trigger) ==
    [flow EXCEPT !.report = failure_report(trigger), !.pc = "done"]

\* the except branch around coordinator.trigger_scrape
on_submit_failure(flow, trigger) ==
    [flow EXCEPT !.report = failure_report(trigger), !.pc = "done"]

\* result.job_id: the scraper numbers its jobs
next_job_id == IF scrape.jobs["job-1"] = "none" THEN "job-1" ELSE "job-2"

\* the states a job of the scraper goes through
JobSuccessors(status) ==
    CASE status = "pending" -> {"running", "failed"}
      [] status = "running" -> {"completed", "failed"}
      [] OTHER -> {}

InitScrape ==
    /\ SmIdle
    /\ AggIdle
    /\ OpsIdle
    /\ IngIdle
    /\ actor = NoValue

\* the trigger fires: the brand comes from the request body or from
\* rotation_repo.get_next_search(), which may find no search configured
FlowBegin(trigger) ==
    /\ scrape.flows[trigger].pc = "idle"
    /\ \E next_search \in {NoValue, "Sony"} :
          scrape' = [scrape EXCEPT !.flows[trigger] =
                        IF next_search = NoValue
                        THEN [@ EXCEPT !.report = failure_report(trigger), !.pc = "done"]
                        ELSE [@ EXCEPT !.pc = "start"]]
    /\ UNCHANGED <<sm, agg, clock, nextUuid, created, entered, happy, collected,
                   actor, last, ingVars, query, race, rotation>>

\* await container_manager.start_container(settings.azure_scraper_container)
FlowStart(trigger) ==
    /\ scrape.flows[trigger].pc = "start"
    /\ \E started \in BOOLEAN :
          LET flow == [scrape.flows[trigger] EXCEPT
                                !.steps = Append(@, Step("start_container", ~started))]
          IN  scrape' = IF started
                        THEN [scrape EXCEPT !.container = "running",
                                            !.flows[trigger] = [flow EXCEPT !.pc = "sleep"]]
                        ELSE [scrape EXCEPT !.flows[trigger] = on_start_failure(flow, trigger)]
    /\ UNCHANGED <<sm, agg, clock, nextUuid, created, entered, happy, collected,
                   actor, last, ingVars, query, race, rotation>>

\* await asyncio.sleep(30)
FlowWarmUp(trigger) ==
    /\ scrape.flows[trigger].pc = "sleep"
    /\ scrape' = [scrape EXCEPT !.flows[trigger] =
                     [@ EXCEPT !.steps = Append(@, Step("sleep", FALSE)), !.pc = "submit"]]
    /\ UNCHANGED <<sm, agg, clock, nextUuid, created, entered, happy, collected,
                   actor, last, ingVars, query, race, rotation>>

\* result = await coordinator.trigger_scrape(...), and, when it returned,
\* asyncio.create_task(poll_scraper_and_process(job_id, ...)) and the report
FlowSubmit(trigger) ==
    /\ scrape.flows[trigger].pc = "submit"
    /\ \E submitted \in BOOLEAN :
          LET flow   == [scrape.flows[trigger] EXCEPT
                                  !.steps = Append(@, Step("trigger_scrape", ~submitted))]
              job_id == next_job_id
          IN  scrape' = IF submitted
                        THEN [scrape EXCEPT
                                 !.jobs[job_id] = "pending",
                                 !.tasks[job_id] = [NoTask EXCEPT !.pc = "loop"],
                                 !.flows[trigger] =
                                     [flow EXCEPT !.steps = Append(@, Step("create_task", FALSE)),
                                                  !.job_id = job_id,
                                                  !.report = started_report(trigger),
                                                  !.pc = "done"]]
                        ELSE [scrape EXCEPT !.flows[trigger] = on_submit_failure(flow, trigger)]
    /\ UNCHANGED <<sm, agg, clock, nextUuid, created, entered, happy, collected,
                   actor, last, ingVars, query, race, rotation>>

\* the scraper works on a job
JobAdvance(job_id) ==
    /\ \E status \in JobSuccessors(scrape.jobs[job_id]) :
          scrape' = [scrape EXCEPT !.jobs[job_id] = status]
    /\ UNCHANGED <<sm, agg, clock, nextUuid, created, entered, happy, collected,
                   actor, last, ingVars, query, race, rotation>>

\* while poll_count < max_polls: await asyncio.sleep(180); poll_count += 1
TaskSleep(job_id) ==
    /\ scrape.tasks[job_id].pc = "loop"
    /\ scrape.tasks[job_id].poll_count < max_polls
    /\ scrape' = [scrape EXCEPT !.tasks[job_id] =
                     [@ EXCEPT !.poll_count = @ + 1, !.pc = "query"]]
    /\ UNCHANGED <<sm, agg, clock, nextUuid, created, entered, happy, collected,
                   actor, last, ingVars, query, race, rotation>>

\* await coordinator.get_job_status(job_id) raises
TaskQueryRaises(job_id) ==
    /\ scrape.tasks[job_id].pc = "query"
    /\ scrape' = [scrape EXCEPT !.tasks[job_id] = on_poll_exception(@)]
    /\ UNCHANGED <<sm, agg, clock, nextUuid, created, entered, happy, collected,
                   actor, last, ingVars, query, race, rotation>>

\* await coordinator.get_job_status(job_id) returns the status of the job,
\* and the branch on it
TaskQuery(job_id) ==
    /\ scrape.tasks[job_id].pc = "query"
    /\ LET branch == poll_branch(scrape.jobs[job_id])
       IN  scrape' = [scrape EXCEPT !.tasks[job_id] =
                         IF branch = "continue"
                         THEN on_continue(@)
                         ELSE [@ EXCEPT !.path = branch, !.pc = "stop"]]
    /\ UNCHANGED <<sm, agg, clock, nextUuid, created, entered, happy, collected,
                   actor, last, ingVars, query, race, rotation>>

\* the loop ends with poll_count at max_polls
TaskTimeout(job_id) ==
    /\ scrape.tasks[job_id].pc = "loop"
    /\ scrape.tasks[job_id].poll_count >= max_polls
    /\ scrape' = [scrape EXCEPT !.tasks[job_id] = [@ EXCEPT !.path = "ceiling", !.pc = "stop"]]
    /\ UNCHANGED <<sm, agg, clock, nextUuid, created, entered, happy, collected,
                   actor, last, ingVars, query, race, rotation>>

\* await container_manager.stop_container(settings.azure_scraper_container),
\* inside its own try, and the return that follows
TaskStop(job_id) ==
    /\ scrape.tasks[job_id].pc = "stop"
    /\ \E stopped \in BOOLEAN :
          scrape' = IF stopped
                    THEN [scrape EXCEPT !.container = "stopped",
                                        !.tasks[job_id] = [@ EXCEPT !.pc = "done"]]
                    ELSE [scrape EXCEPT !.tasks[job_id] = on_stop_failure(@)]
    /\ UNCHANGED <<sm, agg, clock, nextUuid, created, entered, happy, collected,
                   actor, last, ingVars, query, race, rotation>>

NextScrape ==
    \/ \E trigger \in Triggers : FlowBegin(trigger)
    \/ \E trigger \in Triggers : FlowStart(trigger)
    \/ \E trigger \in Triggers : FlowWarmUp(trigger)
    \/ \E trigger \in Triggers : FlowSubmit(trigger)
    \/ \E job_id \in JobIds : JobAdvance(job_id)
    \/ \E job_id \in JobIds : TaskSleep(job_id)
    \/ \E job_id \in JobIds : TaskQueryRaises(job_id)
    \/ \E job_id \in JobIds : TaskQuery(job_id)
    \/ \E job_id \in JobIds : TaskTimeout(job_id)
    \/ \E job_id \in JobIds : TaskStop(job_id)

SpecScrape == InitScrape /\ [][NextScrape]_vars

\* every awaited call returns or raises and the event loop resumes each flow
\* and each task: whatever can take a step does so
FairSpecScrape == SpecScrape /\ WF_vars(NextScrape)

(***************************************************************************)
(* Specification SpecQuery: SqlAlchemyListingRepository.list_all on every  *)
(* small table of product_listings, for every filter, limit and offset,    *)
(* one call on each table.  Rows carry their brand column here.            *)
(***************************************************************************)
\* the rows of a table, the largest limit and the largest offset asked for
MaxRows == 2
MaxLimit == 2
MaxOffset == 1

\* brand ILIKE '%pattern%'
ilike(column, pattern) == <<column, pattern>> \in {<<"Sony", "son">>}

\* a row of product_listings with its brand column: a listing created at
\* created_at and, unless still FOUND, moved to its state
ProductListingModel(id, state, brand, created_at) ==
    LET found   == create_from_scraper_match(DefaultProductId, DefaultJobId, id, created_at)
        listing == IF state = "FOUND"
                   THEN found
                   ELSE transition_to(found, state, "test", id, created_at)
        row     == to_model(listing)
    IN  [f \in (DOMAIN row) \cup {"brand"} |-> IF f = "brand" THEN brand ELSE row[f]]

\* the tables: row k has id k
Tables ==
    UNION {{[k \in 1..n |-> ProductListingModel(k, cols[k].state, cols[k].brand,
                                                cols[k].created_at)] :
               cols \in [1..n -> [state : {"FOUND", "MESSAGING", "CANCELLED"},
                                  brand : {"Sony", "Canon"},
                                  created_at : 0..1]]} :
           n \in 0..MaxRows}

\* the two where clauses, applied when the filter is not None
where(rows, state, brand) ==
    {k \in 1..Len(rows) :
        /\ state # NoValue => rows[k].state = state
        /\ brand # NoValue => ilike(rows[k].brand, brand)}

\* order_by(created_at.desc()): every order of the selected rows the database
\* may return, rows of equal created_at in any order
order_by_created_at_desc(rows, selected) ==
    {o \in [1..Cardinality(selected) -> selected] :
        /\ \A i, j \in 1..Cardinality(selected) : i # j => o[i] # o[j]
        /\ \A i, j \in 1..Cardinality(selected) :
              i < j => rows[o[i]].created_at >= rows[o[j]].created_at}

\* .limit(limit).offset(offset)
limit_offset(ordered, limit, offset) ==
    SubSeq(ordered, offset + 1,
           IF offset + limit < Len(ordered) THEN offset + limit ELSE Len(ordered))

\* mutant: the count is taken from the page returned
count_of_page(rows, state, brand, page) == Len(page)

\* select(func.count()) with the same where clauses
count(rows, state, brand, page) == Cardinality(where(rows, state, brand))

InitQuery ==
    /\ SmIdle
    /\ AggIdle
    /\ OpsIdle
    /\ listings \in Tables
    /\ history = << >>
    /\ published = << >>
    /\ ing = NoIngestion
    /\ calls = << >>
    /\ tr = NoTransition
    /\ poll = NoPoll
    /\ actor = NoValue

\* await repo.list_all(state=state, brand=brand, limit=limit, offset=offset)
ListAll ==
    /\ query.pc = "idle"
    /\ \E state \in {NoValue, "FOUND", "MESSAGING", "SOLD"}, brand \in {NoValue, "son"},
          limit \in 0..MaxLimit, offset \in 0..MaxOffset :
          \E ordered \in order_by_created_at_desc(listings, where(listings, state, brand)) :
              LET page == limit_offset(ordered, limit, offset)
              IN  query' = [pc |-> "returned", state |-> state, brand |-> brand,
                            limit |-> limit, offset |-> offset,
                            listings |-> [i \in 1..Len(page) |-> to_domain(listings[page[i]])],
                            total |-> count(listings, state, brand, page)]
    /\ UNCHANGED <<rotation, scrape, race, sm, agg, clock, nextUuid, created, entered, happy, collected,
                   actor, last, ingVars>>

NextQuery == ListAll

SpecQuery == InitQuery /\ [][NextQuery]_vars

(***************************************************************************)
(* Specification SpecReload: transition_to called on an aggregate that     *)
(* _to_domain built from a stored row.  The row is any row of the table:   *)
(* any state, and at most one lifecycle timestamp column already filled.   *)
(***************************************************************************)
\* the rows _to_domain may be given
StoredRows ==
    {[[to_model(ProductListing(1, DefaultProductId, DefaultJobId, 0))
          EXCEPT !.state = state] EXCEPT ![attr] = IF attr = "found_at" THEN @ ELSE 0] :
        state \in ListingState, attr \in LifecycleAttrs \cup {"found_at"}}

InitReload ==
    /\ SmIdle
    /\ OpsIdle
    /\ IngIdle
    /\ actor = "admin_api"
    /\ \E row \in StoredRows :
          /\ agg = to_domain(row)
          /\ entered = {row.state}
    /\ clock = 0
    /\ nextUuid = 2
    /\ created = << >>
    /\ happy = -1
    /\ collected = << >>
    /\ last = NoCall

NextReload ==
    \/ \E s \in ListingState : TransitionTo(s)
    \/ Tick

SpecReload == InitReload /\ [][NextReload]_vars

(***************************************************************************)
(* Specification SpecRace: two requests to transition the same listing,    *)
(* each in its own database session, in every interleaving.  A request     *)
(* loads the listing and calls transition_to on its copy in one step, and  *)
(* in a later step saves the listing, adds the history record, publishes   *)
(* and commits.  Nothing in the source orders the two requests.            *)
(***************************************************************************)
\* the listing both requests name: the first one ingested
RacedId == 1

\* session.flush() after save() set the columns of the model the session
\* loaded: the UPDATE carries the columns whose value differs from the loaded
\* one, and is applied to the row as it is stored by then
session_flush(stored, model, listing) ==
    [f \in DOMAIN stored |->
        IF f \in SavedColumns /\ listing[f] # model[f] THEN listing[f] ELSE stored[f]]

InitRace ==
    /\ SmIdle
    /\ OpsIdle
    /\ agg = NoListing
    /\ clock = 0
    /\ nextUuid = RacedId + 3
    /\ created = << >>
    /\ entered = {}
    /\ happy = -1
    /\ collected = << >>
    /\ last = NoCall
    /\ actor = "admin_api"
    /\ listings = <<to_model(collect_events(
                       create_from_scraper_match(DefaultProductId, DefaultJobId,
                                                 RacedId, 0)))>>
    /\ history = <<ProductStateHistoryModel(RacedId + 2, RacedId, NoValue, "FOUND",
                                            "scraper_webhook",
                                            [job_id |-> DefaultJobId, brand |-> "Sony"], 0)>>
    /\ published = << >>
    /\ ing = NoIngestion
    /\ calls = << >>
    /\ tr = NoTransition
    /\ poll = NoPoll

\* listing = await listing_repo.get_by_id(listing_id), then
\* listing.transition_to(body.to_state, triggered_by="admin_api"): an invalid
\* transition ends the request with status 422
RequestLoad(r) ==
    /\ race[r].pc = "idle"
    /\ \E to_state \in ListingState :
          LET loaded == get_by_id(listings, RacedId)
              ok     == transition_to_error(loaded, to_state) = NoError
          IN  /\ race' = [race EXCEPT ![r] =
                             [pc         |-> IF ok THEN "loaded" ELSE "rejected",
                              to_state   |-> to_state,
                              from_state |-> loaded.state,
                              model      |-> listings[session_get(listings, RacedId)],
                              listing    |-> transition_to(loaded, to_state, actor,
                                                           nextUuid, utcnow)]]
              /\ nextUuid' = IF ok THEN nextUuid + 1 ELSE nextUuid
    /\ UNCHANGED <<rotation, scrape, query, sm, agg, clock, created, entered, happy, collected,
                   actor, last, listings, history, published, ing, calls, tr, poll>>

\* await listing_repo.save(listing), await history_repo.save(...),
\* publish_many(listing.collect_events()), and the commit of the session
RequestSave(r) ==
    /\ race[r].pc = "loaded"
    /\ listings' = [listings EXCEPT ![session_get(listings, RacedId)] =
                       session_flush(@, race[r].model, race[r].listing)]
    /\ history' = Append(history,
                         ProductStateHistoryModel(nextUuid, RacedId, race[r].from_state,
                                                  race[r].to_state, actor,
                                                  << >>, utcnow))
    /\ published' = published \o publish_many(collect_events_result(race[r].listing), TRUE)
    /\ nextUuid' = nextUuid + 1
    /\ race' = [race EXCEPT ![r] = [@ EXCEPT !.pc = "done",
                                             !.listing = collect_events(@)]]
    /\ UNCHANGED <<rotation, scrape, query, sm, agg, clock, created, entered, happy, collected,
                   actor, last, ing, calls, tr, poll>>

NextRace ==
    \/ \E r \in Requests : RequestLoad(r)
    \/ \E r \in Requests : RequestSave(r)
    \/ Tick

SpecRace == InitRace /\ [][NextRace]_vars

(***************************************************************************)
(* Specification SpecRotation: get_next_search (search_rotation_repository)*)
(* called again and again, one call at a time, on a table whose enabled    *)
(* flags no one changes.  The table is any table the calls themselves can  *)
(* leave: at most one enabled row is marked; a row that was disabled while *)
(* it was marked keeps its mark.                                           *)
(***************************************************************************)
\* SQL NULL as the :current_id parameter
NullId == 0

\* SELECT ... WHERE last_searched = TRUE AND enabled = TRUE LIMIT 1: the ids
\* the statement may return
current_rows(rows) == {id \in RotationIds : rows[id].last_searched /\ rows[id].enabled}

\* UPDATE ... SET last_searched = FALSE WHERE id = :id, when a current row
\* was found
unmark(rows, current_id) ==
    IF current_id # NullId
    THEN [rows EXCEPT ![current_id].last_searched = FALSE]
    ELSE rows

\* the smallest id of a set of rows, NullId for no row: ORDER BY id ASC LIMIT 1
first_by_id(ids) ==
    IF ids = {} THEN NullId ELSE CHOOSE id \in ids : \A other \in ids : id <= other

\* mutant: the next row is looked for from the current id on, itself included
next_search_inclusive(rows, current_id) ==
    LET next_row == first_by_id({id \in RotationIds :
                        /\ rows[id].enabled
                        /\ \/ ~rows[id].last_searched /\ id >= current_id
                           \/ current_id = NullId})
    IN  IF next_row # NullId
        THEN next_row
        ELSE first_by_id({id \in RotationIds : rows[id].enabled})

\* the two SELECTs for the next row: the first enabled unmarked row above the
\* current id (any enabled row when there is no current one), else the first
\* enabled row
next_search(rows, current_id) ==
    LET next_row == first_by_id({id \in RotationIds :
                        /\ rows[id].enabled
                        /\ \/ ~rows[id].last_searched /\ id > current_id
                           \/ current_id = NullId})
    IN  IF next_row # NullId
        THEN next_row
        ELSE first_by_id({id \in RotationIds : rows[id].enabled})

\* get_next_search with the current row the first SELECT gave: the table
\* after the call and the row returned (NullId for None); without a next row
\* the session is closed uncommitted
get_next_search(rows, current_id, now) ==
    LET unmarked == unmark(rows, current_id)
        next_row == next_search(unmarked, current_id)
    IN  IF next_row # NullId
        THEN [rows |-> [unmarked EXCEPT ![next_row].last_searched = TRUE,
                                        ![next_row].last_searched_at = now,
                                        ![next_row].updated_at = now],
              returned |-> next_row]
        ELSE [rows |-> rows, returned |-> NullId]

InitRotation ==
    /\ SmIdle
    /\ AggIdle
    /\ IngIdle
    /\ actor = NoValue
    /\ scrape = NoScrape
    /\ query = NoQuery
    /\ race = [r \in Requests |-> NoRequest]
    /\ \E enabled \in SUBSET RotationIds, marked \in SUBSET RotationIds :
          /\ Cardinality(marked \cap enabled) <= 1
          /\ rotation = [rows |-> [id \in RotationIds |->
                                      [enabled |-> id \in enabled,
                                       last_searched |-> id \in marked,
                                       last_searched_at |-> NoTime,
                                       updated_at |-> NoTime]],
                         returned |-> << >>]

\* next_search = await rotation_repo.get_next_search()
GetNextSearch ==
    /\ Len(rotation.returned) < MaxSearches
    /\ \E current_id \in (IF current_rows(rotation.rows) = {}
                          THEN {NullId} ELSE current_rows(rotation.rows)) :
          LET result == get_next_search(rotation.rows, current_id, utcnow)
          IN  rotation' = [rows |-> result.rows,
                           returned |-> Append(rotation.returned, result.returned)]
    /\ UNCHANGED <<scrape, query, race, sm, agg, clock, nextUuid, created, entered, happy,
                   collected, actor, last, ingVars>>

NextRotation ==
    \/ GetNextSearch
    \/ Tick

SpecRotation == InitRotation /\ [][NextRotation]_vars

(***************************************************************************)
(* Verified properties.                                                    *)
(***************************************************************************)
\* the allowed-set table of the specification, as pairs <<from, to>>
AllowedPairs ==
    {<<"FOUND", "MESSAGING">>, <<"FOUND", "CANCELLED">>,
     <<"MESSAGING", "NEGOTIATING">>, <<"MESSAGING", "CANCELLED">>,
     <<"NEGOTIATING", "PURCHASED">>, <<"NEGOTIATING", "CANCELLED">>,
     <<"PURCHASED", "RECEIVED">>, <<"PURCHASED", "CANCELLED">>,
     <<"RECEIVED", "LISTED">>,
     <<"LISTED", "SOLD">>}

\* the lifecycle timestamp the specification assigns to each non-FOUND state
TimestampOf(state) ==
    CASE state = "MESSAGING"   -> "messaged_at"
      [] state = "NEGOTIATING" -> "negotiating_at"
      [] state = "PURCHASED"   -> "purchased_at"
      [] state = "RECEIVED"    -> "received_at"
      [] state = "LISTED"      -> "listed_at"
      [] state = "SOLD"        -> "sold_at"
      [] state = "CANCELLED"   -> "cancelled_at"

\* all eight lifecycle timestamps
AllStamps == LifecycleAttrs \cup {"found_at"}

\* the lifecycle timestamps on which two snapshots of an aggregate differ
StampsChanged(before, after) == {a \in AllStamps : after[a] # before[a]}

\* the last call was transition_to / was rejected / was accepted
LastTransition == last.op = "transition_to"

LastRejected == LastTransition /\ last.error.type = "InvalidStateTransitionError"

LastAccepted == LastTransition /\ last.error = NoError

\* no value occurs twice in a sequence
NoDuplicates(seq) ==
    \A i \in 1..Len(seq), j \in 1..Len(seq) : i # j => seq[i] # seq[j]

\* C1: can_transition(from, to) is true exactly when <<from, to>> is in the
\* allowed-set table, and is false for every target when from is SOLD or
\* CANCELLED.
C1_CanTransitionIsTable ==
    sm.op = "can_transition" =>
        /\ sm.can = (<<sm.from_state, sm.to_state>> \in AllowedPairs)
        /\ (sm.from_state \in {"SOLD", "CANCELLED"} => sm.can = FALSE)

C1_Witness ==
    /\ sm.op = "can_transition"
    /\ sm.from_state = "PURCHASED"
    /\ sm.to_state = "CANCELLED"
    /\ sm.can = TRUE

\* C2: a transition_to call either is allowed, changes the state to the
\* target, sets exactly one previously-null lifecycle timestamp and appends
\* exactly one event; or is not allowed, raises the validation failure and
\* leaves state, state_changed_at, every lifecycle timestamp and the event
\* buffer as they were.
C2_TransitionAllOrNothing ==
    LastTransition =>
        \/ /\ <<last.before.state, last.to>> \in AllowedPairs
           /\ last.error = NoError
           /\ agg.state = last.to
           /\ Cardinality(StampsChanged(last.before, agg)) = 1
           /\ \A a \in StampsChanged(last.before, agg) :
                 last.before[a] = NoTime /\ agg[a] # NoTime
           /\ Len(agg.events) = Len(last.before.events) + 1
           /\ SubSeq(agg.events, 1, Len(last.before.events)) = last.before.events
        \/ /\ <<last.before.state, last.to>> \notin AllowedPairs
           /\ last.error.type = "InvalidStateTransitionError"
           /\ agg.state = last.before.state
           /\ agg.state_changed_at = last.before.state_changed_at
           /\ StampsChanged(last.before, agg) = {}
           /\ agg.events = last.before.events

C2_Witness ==
    /\ LastRejected
    /\ last.before.state = "MESSAGING"
    /\ last.to = "SOLD"
    /\ Len(last.before.events) = 2
    /\ clock > last.before.state_changed_at

\* C3: once the state is SOLD or CANCELLED every transition_to call, for
\* every target, raises the validation failure, and no call changes the
\* state again.
C3_TerminalAbsorbing ==
    (last.before # NoListing /\ last.before.state \in {"SOLD", "CANCELLED"}) =>
        /\ agg.state = last.before.state
        /\ LastTransition => LastRejected

C3_Witness ==
    /\ LastRejected
    /\ last.before.state = "CANCELLED"
    /\ last.to = "FOUND"

\* C4: the calls MESSAGING, NEGOTIATING, PURCHASED, RECEIVED, LISTED, SOLD made
\* in this order on a factory-created aggregate each succeed; they end in SOLD
\* with the six timestamps of these states set and cancelled_at null, and any
\* further transition_to call raises the validation failure.
C4_HappyPath ==
    /\ happy >= 1 =>
          /\ agg.state = HappyPath[happy]
          /\ \A k \in 1..happy : agg[TimestampOf(HappyPath[k])] # NoTime
          /\ (LastTransition /\ last.before.state # "SOLD") => LastAccepted
    /\ happy = 6 =>
          /\ agg.state = "SOLD"
          /\ agg.cancelled_at = NoTime
          /\ (LastTransition /\ last.before.state = "SOLD") => LastRejected

C4_Witness ==
    /\ happy = 6
    /\ LastRejected
    /\ last.before.state = "SOLD"

\* C5: a successful transition_to(new_state) newly sets exactly the lifecycle
\* timestamp of new_state and leaves the other seven unchanged; hence the
\* non-null lifecycle timestamps are always exactly those of the states the
\* aggregate has entered.
C5_OneTimestampPerTransition ==
    /\ LastAccepted =>
          /\ StampsChanged(last.before, agg) = {TimestampOf(last.to)}
          /\ last.before[TimestampOf(last.to)] = NoTime
    /\ agg # NoListing =>
          /\ agg.found_at # NoTime
          /\ {a \in LifecycleAttrs : agg[a] # NoTime}
                = {TimestampOf(s) : s \in entered \ {"FOUND"}}

C5_Witness ==
    /\ LastAccepted
    /\ last.to = "CANCELLED"
    /\ entered = {"FOUND", "MESSAGING", "NEGOTIATING", "CANCELLED"}

\* C6: no transition_to or record_error call sets a non-null lifecycle
\* timestamp to null or replaces its value.
C6_TimestampsWriteOnce ==
    last.before # NoListing =>
        \A a \in AllStamps :
            last.before[a] # NoTime => agg[a] = last.before[a]

C6_Witness ==
    /\ LastAccepted
    /\ last.to = "PURCHASED"
    /\ last.before.messaged_at # NoTime
    /\ last.before.messaged_at < agg.purchased_at

\* C7: every aggregate the factory returns has an id no earlier aggregate has,
\* state FOUND, found_at set, the seven other lifecycle timestamps null, and a
\* buffer of exactly one event, a ListingCreated with the aggregate's id.
C7_FactoryResult ==
    \A i \in 1..Len(created) :
        /\ \A j \in 1..(i - 1) : created[j].id # created[i].id
        /\ created[i].state = "FOUND"
        /\ created[i].found_at # NoTime
        /\ \A a \in LifecycleAttrs : created[i][a] = NoTime
        /\ Len(created[i].events) = 1
        /\ created[i].events[1].type = "ListingCreatedEvent"
        /\ created[i].events[1].listing_id = created[i].id

C7_Witness ==
    /\ Len(created) = 3
    /\ created[1].found_at < created[3].found_at

\* C8: collect_events returns the buffered events in buffer order and leaves
\* the buffer empty (a second call in a row returns the empty list), and no
\* event is returned by two collect_events calls.
C8_CollectDrains ==
    /\ last.op = "collect_events" =>
          /\ last.returned = last.before.events
          /\ agg.events = << >>
          /\ \A i \in 1..Len(last.returned), j \in 1..Len(last.returned) :
                i < j => last.returned[i].event_id < last.returned[j].event_id
    /\ NoDuplicates(collected)

C8_Witness ==
    /\ last.op = "collect_events"
    /\ Len(last.returned) = 2
    /\ Len(collected) = 4

\* C9: record_error sets the error message and the error timestamp and leaves
\* state, state_changed_at, every lifecycle timestamp and the event buffer
\* unchanged, in every state of the aggregate.
C9_RecordErrorFrame ==
    last.op = "record_error" =>
        /\ agg.error_message = last.msg
        /\ agg.error_occurred_at # NoTime
        /\ agg.error_occurred_at >= last.before.updated_at
        /\ agg.state = last.before.state
        /\ agg.state_changed_at = last.before.state_changed_at
        /\ StampsChanged(last.before, agg) = {}
        /\ agg.events = last.before.events

C9_Witness ==
    /\ last.op = "record_error"
    /\ agg.state = "SOLD"
    /\ Len(agg.events) = 7
    /\ last.before.error_message = "timeout"
    /\ last.msg = "Something went wrong"
    /\ agg.state_changed_at < clock

\* C10: for every batch and every pattern of faults at the listing save, the
\* history save or the publish, execute does not raise, handles every match of
\* the batch, those after a failed one included, and returns as many created
\* ids plus skipped as the batch has matches.
C10_IngestionCountsEveryMatch ==
    /\ ing.pc # "raised"
    /\ Len(ing.created_ids) + ing.skipped = ing.i - 1
    /\ ing.pc = "returned" =>
          /\ Len(Output(ing).created_listing_ids) + Output(ing).skipped_count
                = Len(ing.matches)
          /\ Len(ing.outcomes) = Len(ing.matches)
          /\ \A k \in 1..Len(ing.matches) :
                ing.outcomes[k] = "skipped"
                    <=> ing.matches[k].fault \in {"listing_save", "history_save", "publish"}

C10_Witness ==
    /\ ing.pc = "returned"
    /\ Len(ing.matches) = 3
    /\ ing.matches[1].fault = "listing_save"
    /\ ing.matches[2].fault = "history_save"
    /\ ing.matches[3].fault = "none"
    /\ Len(ing.created_ids) = 1
    /\ ing.skipped = 2

\* the positions in calls of the calls on a port that concern a listing
SavesOf(id) ==
    {c \in 1..Len(calls) : calls[c].port = "listing_repo.save" /\ calls[c].arg.id = id}

RecordsOf(id) ==
    {c \in 1..Len(calls) :
        calls[c].port = "history_repo.save" /\ calls[c].arg.listing_id = id}

PublishesOf(id) ==
    {c \in 1..Len(calls) :
        /\ calls[c].port = "event_publisher.publish_many"
        /\ \E k \in 1..Len(calls[c].arg.events) : calls[c].arg.events[k].listing_id = id}

\* rows and delivered events that concern a listing
ListingRowsOf(id) == {k \in 1..Len(listings) : listings[k].id = id}

HistoryRowsOf(id) == {k \in 1..Len(history) : history[k].listing_id = id}

DeliveredOf(id) == {k \in 1..Len(published) : published[k].listing_id = id}

\* the positions from k on of the outcomes that are "created", in order
RECURSIVE CreatedFrom(_, _)
CreatedFrom(outcomes, k) ==
    IF k > Len(outcomes) THEN << >>
    ELSE (IF outcomes[k] = "created" THEN <<k>> ELSE << >>) \o CreatedFrom(outcomes, k + 1)

\* C11: in the ingestion use case, a match processed without failure makes
\* exactly one listing save, then exactly one history save with from_state
\* null and to_state FOUND, then exactly one publish of one ListingCreated
\* event, and leaves one listing row, one history row and one delivered event;
\* a match whose listing save fails makes no history save and no publish and
\* leaves no history row and no delivered event.
C11_IngestionEffectsInOrder ==
    /\ Len(CreatedFrom(ing.outcomes, 1)) = Len(ing.created_ids)
    /\ \A j \in 1..Len(ing.created_ids) :
          LET id    == ing.created_ids[j]
              match == ing.matches[CreatedFrom(ing.outcomes, 1)[j]]
          IN  /\ \E s \in SavesOf(id), h \in RecordsOf(id), p \in PublishesOf(id) :
                    /\ SavesOf(id) = {s}
                    /\ RecordsOf(id) = {h}
                    /\ PublishesOf(id) = {p}
                    /\ s < h
                    /\ h < p
                    /\ ~calls[s].raised
                    /\ ~calls[h].raised
                    /\ calls[h].arg.from_state = NoValue
                    /\ calls[h].arg.to_state = "FOUND"
                    /\ Len(calls[p].arg.events) = 1
                    /\ calls[p].arg.events[1].type = "ListingCreatedEvent"
              /\ Cardinality(ListingRowsOf(id)) = 1
              /\ \E h \in HistoryRowsOf(id) :
                    /\ HistoryRowsOf(id) = {h}
                    /\ history[h].from_state = NoValue
                    /\ history[h].to_state = "FOUND"
              /\ match.fault = "none" =>
                    \E e \in DeliveredOf(id) :
                       /\ DeliveredOf(id) = {e}
                       /\ published[e].type = "ListingCreatedEvent"
    /\ \A c \in 1..Len(calls) :
          (calls[c].port = "listing_repo.save" /\ calls[c].raised) =>
              /\ RecordsOf(calls[c].arg.id) = {}
              /\ PublishesOf(calls[c].arg.id) = {}
              /\ ListingRowsOf(calls[c].arg.id) = {}
              /\ HistoryRowsOf(calls[c].arg.id) = {}
              /\ DeliveredOf(calls[c].arg.id) = {}

C11_Witness ==
    /\ ing.pc = "returned"
    /\ Len(ing.matches) = 2
    /\ ing.matches[1].fault = "none"
    /\ ing.matches[2].fault = "listing_save"
    /\ Len(ing.created_ids) = 1
    /\ Len(calls) = 4
    /\ Len(history) = 1
    /\ Len(published) = 1

\* the rows the call of the transition use case found with the identity given
RowsBefore == {k \in 1..Len(tr.before.listings) : tr.before.listings[k].id = tr.listing_id}

\* the call of the transition use case left the database and the exchange as
\* they were and called no port after get_by_id
NothingDone ==
    /\ listings = tr.before.listings
    /\ history = tr.before.history
    /\ published = tr.before.published
    /\ calls = << >>

\* C12: the transition use case raises ListingNotFoundError exactly when no
\* row has the identity, and InvalidStateTransitionError exactly when the row
\* exists and the pair of states is not in the table; the two are different
\* exceptions, and after either no listing was saved, no history record was
\* appended and no event was published.
C12_TransitionFailuresDistinct ==
    /\ tr.pc = "raised" <=> tr.error # NoError
    /\ tr.pc \in {"raised", "returned"} =>
          /\ tr.error # NoError => tr.output = NoOutput /\ NothingDone
          /\ tr.error.type = "ListingNotFoundError" <=> RowsBefore = {}
          /\ tr.error.type = "InvalidStateTransitionError" <=>
                \E k \in RowsBefore :
                    <<tr.before.listings[k].state, tr.to_state>> \notin AllowedPairs
          /\ tr.error.type \in {"none", "ListingNotFoundError", "InvalidStateTransitionError"}

C12_Witness ==
    /\ tr.pc = "raised"
    /\ tr.error.type = "ListingNotFoundError"
    /\ tr.listing_id = UnknownId
    /\ Len(history) = 3
    /\ listings[1].state = "NEGOTIATING"

\* C13: a call of the transition use case that returns has made three calls
\* on its ports: one save of the listing in the requested state, then one
\* history save from the state the row had to the requested state by the
\* triggering actor, then one publish of the one ListingStateChanged event of
\* this transition; the row and the history table show the same, and the
\* aggregate's buffer is empty afterwards.
C13_TransitionEffectsInOrder ==
    tr.pc = "returned" =>
        \E k \in RowsBefore :
            LET from_state == tr.before.listings[k].state
            IN  /\ RowsBefore = {k}
                /\ tr.output = [listing_id |-> tr.listing_id,
                                from_state |-> from_state, to_state |-> tr.to_state]
                /\ Len(calls) = 3
                /\ calls[1].port = "listing_repo.save"
                /\ calls[1].arg.id = tr.listing_id
                /\ calls[1].arg.state = tr.to_state
                /\ calls[2].port = "history_repo.save"
                /\ calls[2].arg.listing_id = tr.listing_id
                /\ calls[2].arg.from_state = from_state
                /\ calls[2].arg.to_state = tr.to_state
                /\ calls[2].arg.triggered_by = actor
                /\ calls[2].arg.metadata.triggered_by = actor
                /\ calls[3].port = "event_publisher.publish_many"
                /\ Len(calls[3].arg.events) = 1
                /\ calls[3].arg.events[1].type = "ListingStateChangedEvent"
                /\ calls[3].arg.events[1].listing_id = tr.listing_id
                /\ calls[3].arg.events[1].from_state = from_state
                /\ calls[3].arg.events[1].to_state = tr.to_state
                /\ calls[3].arg.events[1].triggered_by = actor
                /\ Len(listings) = Len(tr.before.listings)
                /\ listings[k].id = tr.listing_id
                /\ listings[k].state = tr.to_state
                /\ history = Append(tr.before.history, calls[2].arg)
                /\ tr.broker_up => published = tr.before.published \o calls[3].arg.events
                /\ tr.listing.state = tr.to_state
                /\ tr.listing.events = << >>

C13_Witness ==
    /\ tr.pc = "returned"
    /\ tr.output.from_state = "FOUND"
    /\ tr.to_state = "MESSAGING"
    /\ tr.reason # NoValue
    /\ tr.broker_up
    /\ Len(history) = 2
    /\ Len(published) = 2
    /\ published[2].type = "ListingStateChangedEvent"

\* C14: when the broker is down, the publisher raises nothing: the transition
\* use case returns its output and the ingestion counts the match as created,
\* the event is not delivered, and the listing row and the history record
\* written before the publish are in place.
C14_PublishFailureAbsorbed ==
    /\ (tr.pc \in {"raised", "returned"} /\ ~tr.broker_up /\ RowsBefore # {}
            /\ \A k \in RowsBefore :
                  <<tr.before.listings[k].state, tr.to_state>> \in AllowedPairs) =>
          /\ tr.pc = "returned"
          /\ tr.error = NoError
          /\ tr.output.listing_id = tr.listing_id
          /\ tr.output.to_state = tr.to_state
          /\ calls[Len(calls)].port = "event_publisher.publish_many"
          /\ ~calls[Len(calls)].raised
          /\ published = tr.before.published
          /\ \E k \in ListingRowsOf(tr.listing_id) : listings[k].state = tr.to_state
          /\ Len(history) = Len(tr.before.history) + 1
          /\ history[Len(history)].listing_id = tr.listing_id
          /\ history[Len(history)].to_state = tr.to_state
    /\ ing.pc # "raised"
    /\ \A i \in 1..Len(ing.outcomes) :
          ing.matches[i].fault = "broker" =>
              /\ ing.outcomes[i] = "created"
              /\ \E j \in 1..Len(ing.created_ids) :
                    /\ CreatedFrom(ing.outcomes, 1)[j] = i
                    /\ ListingRowsOf(ing.created_ids[j]) # {}
                    /\ \E h \in HistoryRowsOf(ing.created_ids[j]) :
                          history[h].to_state = "FOUND"
                    /\ \A e \in DeliveredOf(ing.created_ids[j]) :
                          published[e].type # "ListingCreatedEvent"

C14_Witness ==
    /\ ing.pc = "returned"
    /\ ing.matches[1].fault = "broker"
    /\ tr.pc = "returned"
    /\ ~tr.broker_up
    /\ tr.to_state = "CANCELLED"
    /\ listings[1].state = "CANCELLED"
    /\ Len(history) = 2
    /\ published = << >>

\* the positions in calls of the calls of process_scraper_matches and of
\* stop_container
ProcessCalls == {c \in 1..Len(calls) : calls[c].port = "process_scraper_matches"}

StopCalls == {c \in 1..Len(calls) : calls[c].port = "container_manager.stop_container"}

\* the matches of a list that meet no fault
Sound(matches) == {k \in 1..Len(matches) : matches[k].fault = "none"}

\* C15: when every reply before the latest was pending or running, the latest
\* is completed with a non-empty match list and no call raised, the task, at
\* most 40 queries in, hands the match list to process_scraper_matches once,
\* then calls stop_container once, then is done; it is never back in the loop.
C15_CompletedIngestsOnceThenStops ==
    (/\ poll.status = "completed"
     /\ poll.seen \in {"pending", "waiting"}
     /\ poll.matches # << >>
     /\ \A c \in 1..Len(calls) : ~calls[c].raised) =>
        /\ poll.pc \in {"process", "stop", "done"}
        /\ poll.queries <= max_polls
        /\ poll.queries = poll.sleeps
        /\ poll.queries = poll.poll_count
        /\ poll.pc = "process" => calls = << >> /\ listings = << >>
        /\ poll.pc \in {"stop", "done"} =>
              /\ ProcessCalls = {1}
              /\ calls[1].arg.matches = poll.matches
              /\ Len(listings) = Cardinality(Sound(poll.matches))
              /\ Len(poll.created_ids) = Len(listings)
        /\ poll.pc = "stop" => StopCalls = {}
        /\ poll.pc = "done" => StopCalls = {2} /\ Len(calls) = 2

C15_Witness ==
    /\ poll.pc = "done"
    /\ poll.status = "completed"
    /\ poll.seen = "waiting"
    /\ poll.queries = 3
    /\ Len(calls) = 2
    /\ ~calls[1].raised
    /\ ~calls[2].raised
    /\ Len(listings) = 1
    /\ Len(published) = 1

\* C16: every status query comes after one more sleep; and as long as every
\* reply was pending, nothing is ingested, the attempts used are the sleeps
\* made, and the task leaves the loop only after 40 queries, by the attempt
\* ceiling, to call stop_container once and be done.
C16_AllPendingReachesCeiling ==
    /\ poll.sleeps = poll.queries + (IF poll.pc = "query" THEN 1 ELSE 0)
    /\ (poll.seen = "pending" /\ poll.status \in {"none", "pending"}) =>
          /\ poll.pc \in {"idle", "loop", "query", "stop", "done"}
          /\ poll.poll_count = poll.sleeps
          /\ ProcessCalls = {}
          /\ listings = << >> /\ history = << >> /\ published = << >>
          /\ poll.pc \in {"stop", "done"} =>
                /\ poll.queries = max_polls
                /\ poll.sleeps = max_polls
                /\ poll.path = "ceiling"
          /\ poll.pc = "stop" => calls = << >>
          /\ poll.pc = "done" => StopCalls = {1} /\ Len(calls) = 1

C16_Witness ==
    /\ poll.pc = "done"
    /\ poll.seen = "pending"
    /\ poll.status = "pending"
    /\ poll.queries = 40
    /\ poll.sleeps = 40
    /\ Len(calls) = 1
    /\ listings = << >>

\* C17: a status query that returns a status outside the five known values,
\* a missing one included, changes nothing but the query count and the status
\* seen: no ingestion, no stop, no attempt used beyond the one of the sleep,
\* and the task is back at the loop test, as after pending or running.
C17_UnknownStatusRetried ==
    [][(/\ poll.pc = "query"
        /\ poll'.queries = poll.queries + 1
        /\ poll'.status \notin {"completed", "failed", "error", "pending", "running",
                                "raise"}) =>
            /\ poll' = [poll EXCEPT !.queries = @ + 1,
                                    !.status = poll'.status,
                                    !.seen = poll'.seen,
                                    !.pc = "loop"]
            /\ UNCHANGED <<calls, listings, history, published, nextUuid>>]_vars

C17_Witness ==
    /\ poll.status = NoValue
    /\ poll.seen = "other"
    /\ poll.pc = "query"
    /\ poll.queries = 2
    /\ poll.sleeps = 3
    /\ poll.poll_count = 3
    /\ calls = << >>

\* C18: once a status query returned failed or error the task is never back
\* in the loop: it calls stop_container once and is done, nothing was
\* ingested, and no status query follows.
C18_FailedStopsOnceAndReturns ==
    poll.status \in {"failed", "error"} =>
        /\ poll.pc \in {"stop", "done"}
        /\ poll.path = "failed"
        /\ \A c \in ProcessCalls : calls[c].raised
        /\ listings = << >>
        /\ history = << >>
        /\ poll.pc = "stop" => StopCalls = {}
        /\ poll.pc = "done" => StopCalls = {Len(calls)}

C18_Witness ==
    /\ poll.status = "error"
    /\ poll.pc = "done"
    /\ poll.queries = 2
    /\ Len(calls) = 1
    /\ calls[1].port = "container_manager.stop_container"

\* C19: an iteration that raises uses one attempt, like one that returns
\* pending: the attempts used are the sleeps made, the error never leaves the
\* task, and a task that gives up at the attempt ceiling has made 40 status
\* queries.
C19_ErrorConsumesOneAttempt ==
    /\ poll.pc # "raised"
    /\ poll.poll_count = poll.sleeps
    /\ (poll.pc = "done" /\ poll.path = "ceiling") => poll.queries = max_polls

\* C20: stop_container is called at most once, as the last call of the task;
\* when it raises the task is done all the same, whichever way it left the
\* loop, and the rows and events of the ingestion before it are in place.
C20_StopFailureAbsorbed ==
    /\ poll.pc # "raised"
    /\ Cardinality(StopCalls) <= 1
    /\ \A c \in StopCalls :
          /\ c = Len(calls)
          /\ poll.pc = "done"
          /\ calls[c].arg.path = poll.path
          /\ poll.path \in {"completed", "failed", "ceiling"}
          /\ calls[c].raised =>
                \A p \in ProcessCalls :
                    ~calls[p].raised =>
                        /\ Len(listings) = Cardinality(Sound(calls[p].arg.matches))
                        /\ Len(history) = Len(listings)
                        /\ Len(poll.created_ids) = Len(listings)
                        /\ \A j \in 1..Len(poll.created_ids) :
                              /\ ListingRowsOf(poll.created_ids[j]) # {}
                              /\ HistoryRowsOf(poll.created_ids[j]) # {}
                              /\ DeliveredOf(poll.created_ids[j]) # {}

C20_Witness ==
    /\ poll.pc = "done"
    /\ poll.path = "completed"
    /\ Len(calls) = 2
    /\ calls[1].port = "process_scraper_matches"
    /\ ~calls[1].raised
    /\ calls[2].port = "container_manager.stop_container"
    /\ calls[2].raised
    /\ Len(listings) = 1
    /\ Len(published) = 1

\* C21: whatever the job service replies or raises, the task has never made
\* more than 40 sleeps or more than 40 status queries, and, every call
\* returning, it ends.
C21_PollingTerminates ==
    /\ [](poll.sleeps <= max_polls /\ poll.queries <= max_polls)
    /\ <>(poll.pc = "done")

C21_Witness ==
    /\ poll.pc = "done"
    /\ poll.sleeps = 40
    /\ poll.queries = 40
    /\ poll.seen = "other"
    /\ poll.status = "queued"

\* the steps of a flow that raised / that returned
Raised(flow, name) == \E i \in 1..Len(flow.steps) : flow.steps[i] = Step(name, TRUE)

Returned(flow, name) == \E i \in 1..Len(flow.steps) : flow.steps[i] = Step(name, FALSE)

\* the jobs the scraper holds, the tasks ever created
SubmittedJobs == {j \in JobIds : scrape.jobs[j] # "none"}

CreatedTasks == {j \in JobIds : scrape.tasks[j].pc # "none"}

\* C22: a trigger flow takes its steps in the order start, warm-up, submit,
\* create the polling task; it submits a job only after the start returned and
\* creates the task only after the submission returned; a start that raises is
\* reported and followed by no submission and no task, a submission that raises
\* is reported and followed by no task; the scraper holds exactly the jobs of
\* the submissions that returned, and each of them has exactly one task.
C22_TriggerFlowOrder ==
    /\ \A trigger \in Triggers :
          LET flow == scrape.flows[trigger]
          IN  /\ Len(flow.steps) <= Len(FlowSteps)
              /\ \A i \in 1..Len(flow.steps) : flow.steps[i].step = FlowSteps[i]
              /\ (Returned(flow, "trigger_scrape") \/ Raised(flow, "trigger_scrape"))
                     => Returned(flow, "start_container") /\ Returned(flow, "sleep")
              /\ Returned(flow, "create_task") => Returned(flow, "trigger_scrape")
              /\ Raised(flow, "start_container")
                     => /\ flow.pc = "done"
                        /\ flow.report = failure_report(trigger)
                        /\ Len(flow.steps) = 1
                        /\ flow.job_id = NoValue
              /\ Raised(flow, "trigger_scrape")
                     => /\ flow.pc = "done"
                        /\ flow.report = failure_report(trigger)
                        /\ ~Returned(flow, "create_task")
                        /\ flow.job_id = NoValue
              /\ Returned(flow, "create_task") <=> flow.job_id # NoValue
    /\ SubmittedJobs = {scrape.flows[trigger].job_id : trigger \in Triggers} \ {NoValue}
    /\ CreatedTasks = SubmittedJobs
    /\ Cardinality(SubmittedJobs)
           = Cardinality({trigger \in Triggers : Returned(scrape.flows[trigger], "trigger_scrape")})

\* the route could not start the container and the timer could not submit its
\* job: both reported, the scraper holds no job and no task exists
C22_Witness ==
    /\ Raised(scrape.flows["http"], "start_container")
    /\ Raised(scrape.flows["timer"], "trigger_scrape")
    /\ scrape.flows["http"].report.status_code = 500
    /\ scrape.flows["timer"].report.error
    /\ SubmittedJobs = {}
    /\ CreatedTasks = {}

\* the job is still pending or running at the scraper and its polling task
\* has been created and has not ended
JobInProgress(job_id) ==
    /\ scrape.jobs[job_id] \in {"pending", "running"}
    /\ scrape.tasks[job_id].pc \notin {"none", "done"}

\* C23: the polling loops of two triggered jobs are independent: no step in
\* which the loop of one job stops the scraper's container is taken while the
\* other job is still pending or running and its loop has not ended.
C23_LoopsIndependent ==
    [][\A job_id \in JobIds :
           (/\ scrape.tasks[job_id].pc = "stop"
            /\ scrape'.tasks[job_id].pc = "done"
            /\ scrape.container = "running"
            /\ scrape'.container = "stopped")
               => \A other \in JobIds \ {job_id} : ~JobInProgress(other)]_vars

\* the transitions applied to a listing so far: the calls of
\* TransitionListingState.execute on it that raised no error
AppliedTo(id) == {k \in 1..Len(tr.applied) : tr.applied[k] = id}

\* the step is a call of TransitionListingState.execute
TransitionStep == tr' # tr

\* the step is a pass of the ingestion loop that created a listing
CreationStep == ing'.created_ids # ing.created_ids

C25_ValidateAgreesWithCan ==
    sm.op = "validate_transition" =>
        /\ (sm.error = NoError) <=> can_transition(sm.from_state, sm.to_state)
        /\ (sm.error = NoError) <=> <<sm.from_state, sm.to_state>> \in AllowedPairs
        /\ sm.error # NoError =>
              /\ sm.error.type = "InvalidStateTransitionError"
              /\ sm.error.from_state = sm.from_state
              /\ sm.error.to_state = sm.to_state
              /\ sm.error.allowed = get_allowed_transitions(sm.from_state)
              /\ sm.error.allowed = {t \in ListingState : <<sm.from_state, t>> \in AllowedPairs}

\* validate_transition(FOUND, SOLD) raised, naming MESSAGING and CANCELLED
C25_Witness ==
    /\ sm.op = "validate_transition"
    /\ sm.from_state = "FOUND"
    /\ sm.to_state = "SOLD"
    /\ sm.error # NoError
    /\ sm.error.allowed = {"MESSAGING", "CANCELLED"}

\* the stored rows in state X, and those among them of a brand like the filter
RowsInState(state) == {k \in 1..Len(listings) : listings[k].state = state}

RowsMatching(state, brand) ==
    {k \in RowsInState(state) : brand # NoValue => ilike(listings[k].brand, brand)}

\* C26: list_all with a state filter X returns only listings in state X, each
\* a stored row and none twice, at most limit of them and exactly those left
\* after skipping offset of the matching rows, newest first; its total is the
\* number of all stored rows in state X (of the brand asked for, when a brand
\* is given too), whatever limit and offset are.
C26_FilteredPageAndTotal ==
    (query.pc = "returned" /\ query.state # NoValue) =>
        LET n    == Len(query.listings)
            rest == Cardinality(RowsMatching(query.state, query.brand)) - query.offset
        IN  /\ \A i \in 1..n : query.listings[i].state = query.state
            /\ \A i \in 1..n :
                  \E k \in RowsMatching(query.state, query.brand) :
                      to_domain(listings[k]) = query.listings[i]
            /\ \A i, j \in 1..n : i # j => query.listings[i].id # query.listings[j].id
            /\ \A i, j \in 1..n :
                  i < j => query.listings[i].created_at >= query.listings[j].created_at
            /\ n <= query.limit
            /\ n = IF rest <= 0 THEN 0 ELSE IF rest < query.limit THEN rest ELSE query.limit
            /\ query.total = Cardinality(RowsMatching(query.state, query.brand))
            /\ query.brand = NoValue => query.total = Cardinality(RowsInState(query.state))

\* two FOUND rows and one page of one listing after skipping one: the total
\* is still two
C26_Witness ==
    /\ query.pc = "returned"
    /\ query.state = "FOUND"
    /\ query.brand = NoValue
    /\ query.limit = 1
    /\ query.offset = 1
    /\ Cardinality(RowsInState("FOUND")) = 2
    /\ Len(query.listings) = 1
    /\ query.total = 2

\* C27: a transition_to that succeeds on an aggregate whose timestamp of the
\* destination state is already set leaves the value of that timestamp as it
\* was.
C27_SetTimestampKept ==
    (LastAccepted /\ last.before[lifecycle_attr(last.to)] # NoTime) =>
        agg[lifecycle_attr(last.to)] = last.before[lifecycle_attr(last.to)]

\* the history records of a listing, in the order they were appended
HistoryOf(id) ==
    LET rows == HistoryRowsOf(id)
        Nth[i \in 1..Cardinality(rows)] ==
            CHOOSE k \in rows : Cardinality({m \in rows : m < k}) = i - 1
    IN  [i \in 1..Cardinality(rows) |-> history[Nth[i]]]

\* each record starts where the one before it ended
Chained(records) ==
    \A i \in 2..Len(records) : records[i].from_state = records[i - 1].to_state

\* C28: when two transition requests for one listing interleave, every change
\* of the stored state goes to a member of that state's allowed set, a stored
\* lifecycle timestamp that is set is never nulled or replaced, and the history
\* records of the listing form one chain, each starting where the one before
\* it ended.
C28_InterleavedStaysOnGraph ==
    /\ [][\A k \in 1..Len(listings) :
              /\ listings'[k].state # listings[k].state
                    => <<listings[k].state, listings'[k].state>> \in AllowedPairs
              /\ \A a \in AllStamps :
                    listings[k][a] # NoTime => listings'[k][a] = listings[k][a]]_vars
    /\ [](\A id \in ListingIds : Chained(HistoryOf(id)))

\* C29: with calls made one at a time and no failing collaborator, the
\* history records of every listing, in the order they were appended, are a
\* path of the lifecycle graph: the first goes from null to FOUND, each later
\* one starts where the one before it ended and goes to a state allowed from
\* there, and the last one ends in the stored state of the listing.
C29_HistoryIsPath ==
    \A id \in ListingIds :
        LET records == HistoryOf(id)
        IN  /\ Len(records) >= 1
            /\ records[1].from_state = NoValue
            /\ records[1].to_state = "FOUND"
            /\ Chained(records)
            /\ \A i \in 2..Len(records) :
                  <<records[i].from_state, records[i].to_state>> \in AllowedPairs
            /\ records[Len(records)].to_state = get_by_id(listings, id).state

\* a listing taken from FOUND through MESSAGING and NEGOTIATING to CANCELLED
C29_Witness ==
    \E id \in ListingIds :
        /\ Len(HistoryOf(id)) = 4
        /\ HistoryOf(id)[3].to_state = "NEGOTIATING"
        /\ HistoryOf(id)[4].to_state = "CANCELLED"
        /\ get_by_id(listings, id).state = "CANCELLED"

\* the ListingCreatedEvents that reached the exchange
CreatedDelivered == {e \in 1..Len(published) : published[e].type = "ListingCreatedEvent"}

\* C30: over the lifetime of one polling task the matches of the job are
\* ingested at most once, whatever statuses and errors occur: the match list
\* is handed to process_scraper_matches at most once and no more
\* ListingCreatedEvents are delivered than that one list has matches.
C30_IngestedAtMostOnce ==
    /\ Cardinality(ProcessCalls) <= 1
    /\ \A c \in ProcessCalls : Cardinality(CreatedDelivered) <= Len(calls[c].arg.matches)

\* C31: a task that has ended, whichever way it left the loop and whatever
\* was caught before, has called stop_container exactly once, as its last
\* call; and once stop_container was called the task makes no status query
\* and no ingestion any more.
C31_ReleasedOnceAtTheEnd ==
    /\ [](poll.pc = "done" =>
              /\ Cardinality(StopCalls) = 1
              /\ StopCalls = {Len(calls)}
              /\ poll.path \in {"completed", "failed", "ceiling"})
    /\ [][StopCalls # {} =>
              /\ poll'.queries = poll.queries
              /\ poll'.sleeps = poll.sleeps
              /\ calls' = calls
              /\ UNCHANGED <<listings, history, published>>]_vars

\* an ingestion whose commit raised, a second one that went through, then the
\* one stop of the container, which raised as well
C31_Witness ==
    /\ poll.pc = "done"
    /\ poll.path = "completed"
    /\ Len(calls) = 3
    /\ calls[1].port = "process_scraper_matches" /\ calls[1].raised
    /\ calls[2].port = "process_scraper_matches" /\ ~calls[2].raised
    /\ calls[3].port = "container_manager.stop_container" /\ calls[3].raised

\* some polling task has gone through its stop_container call
StopAttempted == \E job_id \in JobIds : scrape.tasks[job_id].pc = "done"

\* C32: whenever a trigger flow has started the container, a stop of the
\* container is attempted at some later point, also when the submission of
\* the job fails.
C32_StartedIsReleased ==
    \A trigger \in Triggers :
        Returned(scrape.flows[trigger], "start_container") ~> StopAttempted

\* C33: every event that reached the exchange is about a listing whose row
\* is stored: no event is out for a listing whose save was rolled back or
\* whose commit failed.
C33_PublishedIsPersisted ==
    \A e \in 1..Len(published) : ListingRowsOf(published[e].listing_id) # {}

\* C34: when execute has returned, the listings it saved are exactly the
\* ones whose ids it returns: a match counted as skipped has left no listing
\* row, wherever in the pass its failure occurred.
C34_ReturnedAreTheSaved ==
    ing.pc = "returned" =>
        {listings[k].id : k \in 1..Len(listings)}
            = {ing.created_ids[k] : k \in 1..Len(ing.created_ids)}

\* the task stands after a completed reply without matches
CompletedEmpty ==
    /\ poll.path = "completed"
    /\ poll.matches = << >>
    /\ poll.pc \in {"stop", "done"}

\* C35: a completed reply whose match list is empty or missing leads to no
\* ingestion call and to no row, record or event; the task goes on to one
\* stop_container call and ends.
C35_EmptyResultOnlyReleases ==
    /\ [][(poll.pc = "query" /\ poll'.status = "completed" /\ poll'.matches = << >>
              /\ poll'.queries = poll.queries + 1)
             => /\ poll'.pc = "stop"
                /\ poll'.path = "completed"
                /\ UNCHANGED <<calls, listings, history, published>>]_vars
    /\ [][(CompletedEmpty /\ poll.pc = "stop")
             => /\ CompletedEmpty'
                /\ poll'.pc = "done"
                /\ StopCalls' = {Len(calls) + 1}
                /\ UNCHANGED <<listings, history, published>>]_vars
    /\ [](CompletedEmpty => listings = << >> /\ \A c \in ProcessCalls : calls[c].raised)
    /\ (CompletedEmpty ~> (CompletedEmpty /\ poll.pc = "done" /\ Cardinality(StopCalls) = 1))

C35_Witness ==
    /\ CompletedEmpty
    /\ poll.pc = "done"
    /\ poll.queries = 1
    /\ Len(calls) = 1
    /\ calls[1].port = "container_manager.stop_container"
    /\ listings = << >>
    /\ published = << >>

\* the states reachable from s in at most n allowed transitions
RECURSIVE ReachableWithin(_, _)
ReachableWithin(s, n) ==
    IF n = 0
    THEN {s}
    ELSE {s} \cup UNION {ReachableWithin(t, n - 1) : t \in get_allowed_transitions(s)}

\* C36: a transition_to call that changes the state enters a state the
\* aggregate has never been in, so at most 6 calls succeed on one aggregate;
\* every state that is not terminal has an allowed successor, and from every
\* state SOLD or CANCELLED can be reached along allowed transitions.
C36_LifecycleIsAcyclic ==
    /\ [][(agg # NoListing /\ agg'.state # agg.state)
             => /\ agg'.state \notin entered
                /\ can_transition(agg.state, agg'.state)
                /\ Len(agg'.events) + Len(collected') = Len(agg.events) + Len(collected) + 1]_vars
    /\ [][(agg # NoListing /\ agg'.state = agg.state)
             => entered' = entered]_vars
    /\ [](agg # NoListing =>
              /\ Cardinality(entered) - 1 <= 6
              /\ agg.state \in entered)
    /\ [](\A s \in ListingState :
              /\ ~is_terminal(s) => get_allowed_transitions(s) # {}
              /\ \E t \in ReachableWithin(s, Cardinality(ListingState)) : is_terminal(t))

C36_Witness ==
    /\ agg # NoListing
    /\ agg.state = "SOLD"
    /\ Cardinality(entered) = 7
    /\ happy = 6
    /\ LastRejected

\* C37: an aggregate that has been RECEIVED is RECEIVED, LISTED or SOLD and
\* its cancelled_at is null, whatever transition_to calls were made since;
\* a call asking for CANCELLED from these states is rejected.
C37_ReceivedIsNeverCancelled ==
    (agg # NoListing /\ "RECEIVED" \in entered) =>
        /\ agg.state \in {"RECEIVED", "LISTED", "SOLD"}
        /\ "CANCELLED" \notin entered
        /\ agg.cancelled_at = NoTime
        /\ (LastTransition /\ last.to = "CANCELLED"
                /\ last.before.state \in {"RECEIVED", "LISTED", "SOLD"})
               => LastRejected /\ agg.state = last.before.state

C37_Witness ==
    /\ agg # NoListing
    /\ "RECEIVED" \in entered
    /\ agg.state = "LISTED"
    /\ LastRejected
    /\ last.to = "CANCELLED"
    /\ last.before.state = "LISTED"
    /\ agg.cancelled_at = NoTime

\* the to_state of the event before position k of a buffer that was never
\* drained: FOUND after the creation event
StateBefore(events, k) == IF k = 2 THEN "FOUND" ELSE events[k - 1].to_state

\* C38: while collect_events has not been called, the buffer holds the
\* ListingCreatedEvent followed by one ListingStateChangedEvent per accepted
\* transition_to call, in call order; each carries the state before its call,
\* the state asked for and the actor of the call, so the from_state of each is
\* the to_state of the one before it (FOUND for the first); a rejected call
\* leaves the buffer as it was.
C38_BufferRecordsAcceptedCalls ==
    /\ [](agg # NoListing /\ collected = << >> =>
              /\ Len(agg.events) = Cardinality(entered)
              /\ agg.events[1].type = "ListingCreatedEvent"
              /\ \A k \in 2..Len(agg.events) :
                    /\ agg.events[k].type = "ListingStateChangedEvent"
                    /\ agg.events[k].from_state = StateBefore(agg.events, k)
                    /\ <<agg.events[k].from_state, agg.events[k].to_state>> \in AllowedPairs
                    /\ agg.events[k].triggered_by = actor
              /\ Len(agg.events) > 1 => agg.events[Len(agg.events)].to_state = agg.state)
    /\ [][(agg # NoListing /\ collected' = << >> /\ agg'.state # agg.state)
             => /\ Len(agg'.events) = Len(agg.events) + 1
                /\ SubSeq(agg'.events, 1, Len(agg.events)) = agg.events
                /\ agg'.events[Len(agg'.events)].from_state = agg.state
                /\ agg'.events[Len(agg'.events)].to_state = last'.to
                /\ agg'.events[Len(agg'.events)].triggered_by = actor]_vars
    /\ [][(agg # NoListing /\ LastRejected' /\ last' # last)
             => agg'.events = agg.events]_vars

C38_Witness ==
    /\ agg # NoListing
    /\ collected = << >>
    /\ Len(agg.events) = 4
    /\ agg.events[4].from_state = "NEGOTIATING"
    /\ agg.events[4].to_state = "CANCELLED"
    /\ LastRejected

\* what process_scraper_matches does, from empty tables, with the matches
\* execute has handled so far
PollingIngestion ==
    process_scraper_matches(ProcessState(<< >>, << >>, << >>, 1, << >>),
                            ing.job_id, ing.brand,
                            SubSeq(ing.matches, 1, ing.i - 1), 0, TRUE)

\* C39: for the same matches with the same failures, process_scraper_matches
\* leaves the listing rows, the published events and the created ids that
\* execute leaves, and the same history records (from_state null, to_state
\* FOUND) but for triggered_by, which is scraper_polling in the one and
\* scraper_webhook in the other.
C39_PollingIngestionMatchesUseCase ==
    (ing.pc \in {"running", "returned"} /\ clock = 0) =>
        /\ PollingIngestion.listings = listings
        /\ PollingIngestion.published = published
        /\ PollingIngestion.created_ids = ing.created_ids
        /\ PollingIngestion.nextUuid = nextUuid
        /\ Len(PollingIngestion.history) = Len(history)
        /\ \A k \in 1..Len(history) :
              /\ PollingIngestion.history[k].triggered_by = "scraper_polling"
              /\ history[k].triggered_by = "scraper_webhook"
              /\ history[k].from_state = NoValue
              /\ history[k].to_state = "FOUND"
              /\ [PollingIngestion.history[k] EXCEPT !.triggered_by = "scraper_webhook"]
                     = history[k]

C39_Witness ==
    /\ ing.pc = "returned"
    /\ clock = 0
    /\ Len(ing.matches) = 3
    /\ ing.matches[1].fault = "history_save"
    /\ ing.matches[2].fault = "none"
    /\ ing.matches[3].fault = "publish"
    /\ Len(PollingIngestion.listings) = 3
    /\ Len(PollingIngestion.history) = 2
    /\ PollingIngestion.created_ids = ing.created_ids
    /\ Len(ing.created_ids) = 1

\* the enabled rows of the rotation table, and the ones marked among them
EnabledIds == {id \in RotationIds : rotation.rows[id].enabled}

MarkedIds == {id \in EnabledIds : rotation.rows[id].last_searched}

\* the enabled row after id in ascending id order, the lowest after the highest
NextInCycle(id) ==
    IF \E above \in EnabledIds : above > id
    THEN CHOOSE above \in EnabledIds :
             above > id /\ \A other \in EnabledIds : other > id => above <= other
    ELSE CHOOSE lowest \in EnabledIds : \A other \in EnabledIds : lowest <= other

\* C40: on a table with at least one enabled row, each call of
\* get_next_search returns the enabled row that follows the one returned
\* before it in ascending id order, the lowest after the highest, so any run
\* of as many calls as there are enabled rows returns each of them once; the
\* first call of all returns the row after the marked one, or the lowest when
\* none is marked; after a call the one enabled row marked is the row it
\* returned.
C40_RotationIsRoundRobin ==
    /\ [](EnabledIds # {} =>
              /\ \A k \in 1..Len(rotation.returned) : rotation.returned[k] \in EnabledIds
              /\ \A k \in 1..(Len(rotation.returned) - 1) :
                    rotation.returned[k + 1] = NextInCycle(rotation.returned[k])
              /\ \A k \in 1..(Len(rotation.returned) - Cardinality(EnabledIds) + 1) :
                    {rotation.returned[j] : j \in k..(k + Cardinality(EnabledIds) - 1)}
                        = EnabledIds
              /\ rotation.returned # << >>
                     => MarkedIds = {rotation.returned[Len(rotation.returned)]}
              /\ Cardinality(MarkedIds) <= 1)
    /\ [][(EnabledIds # {} /\ rotation'.returned # rotation.returned)
             => /\ \A id \in MarkedIds :
                      rotation'.returned[Len(rotation'.returned)] = NextInCycle(id)
                /\ MarkedIds = {}
                      => \A other \in EnabledIds :
                            rotation'.returned[Len(rotation'.returned)] <= other
                /\ \A id \in RotationIds :
                      rotation'.rows[id].enabled = rotation.rows[id].enabled]_vars

C40_Witness ==
    /\ EnabledIds = {1, 3}
    /\ rotation.returned = <<1, 3, 1, 3, 1>>
    /\ MarkedIds = {1}

====
